---- MODULE Spec2Model ----
(***************************************************************************)
(* Firebase App Check token verification (firebase_admin/app_check.py).    *)
(*                                                                         *)
(* Python values are tagged records [t, v]: t is the Python type, v the    *)
(* content.  A string is a sequence of atoms (its pieces), so that         *)
(* concatenation is \o and startswith is the prefix relation.              *)
(***************************************************************************)
EXTENDS Integers, Sequences, FiniteSets, TLC

VARIABLES
    app_project_id,   \* app.project_id of the App the service is built for
    service,          \* the _AppCheckService instance (or none yet)
    jwks,             \* key material behind the PyJWKClient: kid -> key
    now,              \* the clock jwt.decode compares exp against
    pc,               \* position of the verify_token call in progress
    token,            \* the argument of the call in progress
    signing_key,      \* local signing_key of the call in progress
    payload,          \* local verified_claims of the call in progress
    clock_read,       \* the time jwt.decode read in the call in progress
    outcome,          \* what the call returned or raised
    steps,            \* the steps the call in progress has run
    last,             \* what the caller kept of its previous, accepted call
    peer,             \* a second verify_token call, on another thread
    listing,          \* where a listing of users or provider configs stands
    chain,            \* the pages of the listing, first to current
    downloads,        \* the calls of the listing's download function
    deletion,         \* the delete_users call made and how it ended
    delete_requests,  \* the batchDelete requests sent
    delete_result,    \* the DeleteUsersResult built from the response
    lookup,           \* the get_users call made and how it ended
    lookup_requests,  \* the lookup requests sent
    handled,          \* the googleapiclient error handled and the result
    exported,         \* the ExportedUserRecord read and what was read
    provider,         \* the provider config call made and how it ended
    provider_requests \* the provider config requests sent

\* the variables of App Check, and those of the Auth user management client
appCheckVars ==
    <<app_project_id, service, jwks, now, pc, token, signing_key, payload,
      clock_read, outcome, steps, last, peer>>
listVars == <<listing, chain, downloads>>
deleteVars == <<deletion, delete_requests, delete_result>>
\* the variables of the other operations of the Auth client
lookupVars == <<lookup, lookup_requests>>
errorVars == <<handled>>
recordVars == <<exported>>
providerVars == <<provider, provider_requests>>
authVars == <<lookupVars, errorVars, recordVars, providerVars>>

vars == <<appCheckVars, listVars, deleteVars, authVars>>

----------------------------------------------------------------------------
(* Bounds *)

MaxNow == 1
MaxExp == 1
\* how many fields of a token may differ from those of the reference token
MaxDeviations == 2
\* how many times the download function of a listing is called
MaxDownloads == 3
\* how many uids of a call are written out; the others are valid ones
MaxHead == 2
\* how many errors a response lists at most
MaxErrors == 2
\* the largest total a DeleteUsersResult is built with, besides len(uids)
MaxTotal == 3
\* how many identifiers of a get_users call are written out
MaxIdentifiers == 2

----------------------------------------------------------------------------
(* Python values *)

Absent == [t |-> "absent", v |-> <<>>]
None == [t |-> "none", v |-> <<>>]
Str(s) == [t |-> "str", v |-> s]
Num(n) == [t |-> "int", v |-> <<n>>]
List(l) == [t |-> "list", v |-> l]

\* dict.get(key): a missing key reads as None
Get(value) == IF value.t = "absent" THEN None ELSE value

\* 'value is not None' in place of the truth test
IsNotNone(value) == value.t \notin {"absent", "none"}

Bool(b) == [t |-> "bool", v |-> <<b>>]

\* Python truthiness of None, str, list, bool and int
Truthy(value) ==
    /\ value.t \notin {"absent", "none"}
    /\ value.t \in {"str", "list"} => value.v # <<>>
    /\ value.t = "bool" => value.v[1]
    /\ value.t = "int" => value.v[1] # 0

\* s == prefix in place of s.startswith(prefix)
IsEqualTo(s, prefix) == s = prefix

\* str.startswith(prefix), both sequences of atoms
StartsWith(s, prefix) ==
    /\ Len(s) >= Len(prefix)
    /\ SubSeq(s, 1, Len(prefix)) = prefix

\* x in list
InList(x, l) == \E i \in 1..Len(l) : l[i] = x

----------------------------------------------------------------------------
(* Constants of _AppCheckService *)

APP_CHECK_ISSUER == <<"https://firebaseappcheck.googleapis.com/">>

\* the project id itself, without 'projects/'
UnscopedProjectId(project_id) == project_id

\* 'projects/' + app.project_id
ScopedProjectId(project_id) == <<"projects/">> \o project_id

----------------------------------------------------------------------------
(* The inputs: App configurations, keys and tokens *)

ProjectX == <<"proj-x">>
\* the audience App Check puts in the tokens of project proj-x
ProjectXAudience == <<"projects/", "proj-x">>
ProjectIds == {None, Str(<<>>), Str(ProjectX)}

Kids == {"kid-1", "kid-2"}
Keys == {"key-A", "key-B"}
NoKey == "no-key"

Typs == {Absent, Str(<<"JWT">>), Str(<<"JWS">>)}
Algs == {Absent, Str(<<"RS256">>), Str(<<"HS256">>), Str(<<"none">>)}
Exps == {Absent} \cup {Num(n) : n \in 0..MaxExp}
Auds ==
    {Absent,
     Str(ProjectXAudience),
     Str(ProjectX),
     List(<<>>),
     List(<<ProjectXAudience>>),
     List(<<ProjectX>>),
     List(<<ProjectX, ProjectXAudience>>)}
Isss ==
    {Absent,
     Str(APP_CHECK_ISSUER \o ProjectX),
     Str(<<"https://issuer.example/">> \o ProjectX),
     Num(7)}
Subs == {Absent, Str(<<>>), Str(<<"1:1234:android:abcd">>)}

\* A compact JWT: header (typ, alg, kid), payload (exp, aud, iss, sub) and a
\* signature, which is the key that signed it.
JwtTokens ==
    [t : {"str"}, form : {"jwt"}, typ : Typs, alg : Algs, kid : Kids,
     sig : Keys, exp : Exps, aud : Auds, iss : Isss, sub : Subs]

NotAJwt(t, form) ==
    [t |-> t, form |-> form, typ |-> Absent, alg |-> Absent, kid |-> "kid-1",
     sig |-> "key-A", exp |-> Absent, aud |-> Absent, iss |-> Absent,
     sub |-> Absent]

\* None, a number, the empty string, a string that is no JWT
NonTokens ==
    {NotAJwt("none", "none"), NotAJwt("int", "none"),
     NotAJwt("str", "empty"), NotAJwt("str", "garbage")}

\* The reference token: the one App Check issues for ProjectX, signed with
\* key-A under kid-1; exp is left free.
Reference ==
    [typ |-> Str(<<"JWT">>), alg |-> Str(<<"RS256">>), kid |-> "kid-1",
     sig |-> "key-A", aud |-> List(<<ProjectXAudience>>),
     iss |-> Str(APP_CHECK_ISSUER \o ProjectX),
     sub |-> Str(<<"1:1234:android:abcd">>)]

Deviations(tok) ==
    Cardinality({f \in DOMAIN Reference : tok[f] # Reference[f]})

Tokens ==
    {tok \in JwtTokens : Deviations(tok) <= MaxDeviations} \cup NonTokens

NoToken == NotAJwt("none", "none")

Header(tok) == [typ |-> tok.typ, alg |-> tok.alg, kid |-> tok.kid]
Claims(tok) ==
    [exp |-> tok.exp, aud |-> tok.aud, iss |-> tok.iss, sub |-> tok.sub,
     app_id |-> Absent]
NoClaims ==
    [exp |-> Absent, aud |-> Absent, iss |-> Absent, sub |-> Absent,
     app_id |-> Absent]

----------------------------------------------------------------------------
(* Outcomes of a call *)

Raise(kind, msg) == [kind |-> kind, msg |-> msg, claims |-> NoClaims]
Return(claims) == [kind |-> "ok", msg |-> "", claims |-> claims]
Pending == [kind |-> "pending", msg |-> "", claims |-> NoClaims]

----------------------------------------------------------------------------
(* The jwt library, as app_check.py uses it *)

\* The classes an exception is an instance of
Bases(exc) ==
    CASE exc = "InvalidSignatureError" ->
            {"InvalidSignatureError", "DecodeError", "InvalidTokenError",
             "PyJWTError"}
      [] exc \in {"DecodeError", "InvalidAudienceError", "InvalidIssuerError",
                  "ExpiredSignatureError", "MissingRequiredClaimError",
                  "InvalidAlgorithmError"} ->
            {exc, "InvalidTokenError", "PyJWTError"}
      [] exc = "PyJWKClientConnectionError" ->
            {exc, "PyJWKClientError", "PyJWTError"}
      [] exc = "PyJWKClientError" -> {exc, "PyJWTError"}
      [] OTHER -> {exc}

\* self._jwks_client.get_signing_key_from_jwt(token): decode the token
\* without verifying it, read kid, resolve it against the key set
GetSigningKeyFromJwt(tok, keyset, fetchOk) ==
    IF tok.form # "jwt" THEN [exc |-> "DecodeError", key |-> NoKey]
    ELSE IF ~fetchOk THEN [exc |-> "PyJWKClientConnectionError", key |-> NoKey]
    ELSE IF keyset[tok.kid] = NoKey
         THEN [exc |-> "PyJWKClientError", key |-> NoKey]
    ELSE [exc |-> "none", key |-> keyset[tok.kid]]

\* jwt.decode's audience validation against the audience argument
JwtValidateAud(aud, audience) ==
    IF ~Truthy(aud) THEN "MissingRequiredClaimError"
    ELSE IF aud.t = "str"
         THEN IF aud.v = audience THEN "none" ELSE "InvalidAudienceError"
    ELSE IF aud.t # "list" THEN "InvalidAudienceError"
    ELSE IF InList(audience, aud.v) THEN "none" ELSE "InvalidAudienceError"

\* the decode with the check of exp switched off
JwtDecodeNoExp(tok, key, algorithms, audience, clock) ==
    IF tok.alg.t # "str" \/ tok.alg \notin algorithms
    THEN "InvalidAlgorithmError"
    ELSE IF tok.sig # key THEN "InvalidSignatureError"
    ELSE JwtValidateAud(tok.aud, audience)

\* jwt.decode(token, signing_key, algorithms=["RS256"], audience=...):
\* algorithm, signature, then the claims exp and aud; no issuer is given
JwtDecode(tok, key, algorithms, audience, clock) ==
    IF tok.alg.t # "str" \/ tok.alg \notin algorithms
    THEN "InvalidAlgorithmError"
    ELSE IF tok.sig # key THEN "InvalidSignatureError"
    ELSE IF tok.exp.t = "int" /\ tok.exp.v[1] <= clock
         THEN "ExpiredSignatureError"
    ELSE JwtValidateAud(tok.aud, audience)

----------------------------------------------------------------------------
(* _Validators and _AppCheckService *)

\* _Validators.check_string(label, value): the message raised, "" when the
\* value passes
CheckString(value) ==
    IF value.t = "none" THEN "must be a non-empty string"
    ELSE IF value.t # "str" THEN "must be a string"
    ELSE ""

\* the header check without its alg half
HasValidTypHeader(headers) ==
    IF Get(headers.typ) # Str(<<"JWT">>) THEN "incorrect type header" ELSE ""

\* the header check without its typ half
HasValidAlgHeader(headers) ==
    IF Get(headers.alg) # Str(<<"RS256">>) THEN "incorrect alg header" ELSE ""

\* _has_valid_token_headers(headers): the message raised, "" when they pass
HasValidTokenHeaders(headers) ==
    IF Get(headers.typ) # Str(<<"JWT">>) THEN "incorrect type header"
    ELSE IF Get(headers.alg) # Str(<<"RS256">>) THEN "incorrect alg header"
    ELSE ""

\* the except clauses of _decode_and_verify, first match wins
DecodeErrorMessage(exc) ==
    IF "InvalidSignatureError" \in Bases(exc) THEN "invalid signature"
    ELSE IF "InvalidAudienceError" \in Bases(exc)
         THEN "incorrect aud claim (decode)"
    ELSE IF "InvalidIssuerError" \in Bases(exc)
         THEN "incorrect iss claim (decode)"
    ELSE IF "ExpiredSignatureError" \in Bases(exc) THEN "token has expired"
    ELSE "Decoding App Check token failed"

\* s in t for two strings: s is a substring of t
IsSubstring(s, t) ==
    \E i \in 0..(Len(t) - Len(s)) : SubSeq(t, i + 1, i + Len(s)) = s

\* the audience check without isinstance(audience, list)
AudienceContains(audience, scoped_project_id) ==
    \/ audience.t = "list" /\ InList(scoped_project_id, audience.v)
    \/ audience.t = "str" /\ IsSubstring(scoped_project_id, audience.v)

\* the audience check after the decode
AudienceOk(audience, scoped_project_id) ==
    audience.t = "list" /\ InList(scoped_project_id, audience.v)

\* the issuer check after the decode: payload['iss'].startswith(...)
IssuerCheck(iss) ==
    IF iss.t = "absent" THEN Raise("KeyError", "iss")
    ELSE IF iss.t # "str" THEN Raise("AttributeError", "startswith")
    ELSE IF ~StartsWith(iss.v, APP_CHECK_ISSUER)
         THEN Raise("ValueError", "incorrect iss claim")
    ELSE Pending

\* _decode_and_verify without its except clause for ExpiredSignatureError
\* and the clauses after it: those exceptions leave it as they are
DecodeAndVerifyExpiryUncaught(tok, key, svc, clock) ==
    LET exc == JwtDecode(tok, key, {Str(<<"RS256">>)},
                         svc.scoped_project_id, clock)
        claims == Claims(tok)
        subject == CheckString(Get(claims.sub))
    IN  IF exc # "none" /\ Bases(exc) \cap {"InvalidSignatureError",
                "InvalidAudienceError", "InvalidIssuerError"} = {}
        THEN Raise(exc, "")
        ELSE IF exc # "none" THEN Raise("ValueError", DecodeErrorMessage(exc))
        ELSE IF ~AudienceOk(Get(claims.aud), svc.scoped_project_id)
             THEN Raise("ValueError", "incorrect aud claim")
        ELSE IF IssuerCheck(claims.iss) # Pending THEN IssuerCheck(claims.iss)
        ELSE IF subject # "" THEN Raise("ValueError", subject)
        ELSE Return(claims)

\* _decode_and_verify with the issuer check moved before the audience check
DecodeAndVerifyIssuerFirst(tok, key, svc, clock) ==
    LET exc == JwtDecode(tok, key, {Str(<<"RS256">>)},
                         svc.scoped_project_id, clock)
        claims == Claims(tok)
        subject == CheckString(Get(claims.sub))
    IN  IF exc # "none" THEN Raise("ValueError", DecodeErrorMessage(exc))
        ELSE IF IssuerCheck(claims.iss) # Pending THEN IssuerCheck(claims.iss)
        ELSE IF ~AudienceOk(Get(claims.aud), svc.scoped_project_id)
             THEN Raise("ValueError", "incorrect aud claim")
        ELSE IF subject # "" THEN Raise("ValueError", subject)
        ELSE Return(claims)

\* _decode_and_verify(token, signing_key): the payload returned or the
\* exception raised
DecodeAndVerify(tok, key, svc, clock) ==
    LET exc == JwtDecode(tok, key, {Str(<<"RS256">>)},
                         svc.scoped_project_id, clock)
        claims == Claims(tok)
        subject == CheckString(Get(claims.sub))
    IN  IF exc # "none" THEN Raise("ValueError", DecodeErrorMessage(exc))
        ELSE IF ~AudienceOk(Get(claims.aud), svc.scoped_project_id)
             THEN Raise("ValueError", "incorrect aud claim")
        ELSE IF IssuerCheck(claims.iss) # Pending THEN IssuerCheck(claims.iss)
        ELSE IF subject # "" THEN Raise("ValueError", subject)
        ELSE Return(claims)

\* an except clause naming the base class of every jwt exception
VerifyCatchesPyJWTError == {"PyJWTError"}

\* the exception classes verify_token's except clause names
VerifyCatches == {"InvalidTokenError", "DecodeError"}

\* an exception raised inside verify_token's try block, as the caller sees it
Propagate(exc) ==
    IF Bases(exc.kind) \cap VerifyCatches # {}
    THEN Raise("ValueError", "Verifying App Check token failed")
    ELSE exc

\* app_id copied from iss in place of sub
WithAppIdFromIss(claims) == [claims EXCEPT !.app_id = Get(claims.iss)]

\* the claims returned as decoded, app_id never set
WithoutAppId(claims) == claims

\* verified_claims['app_id'] = verified_claims.get('sub')
WithAppId(claims) == [claims EXCEPT !.app_id = Get(claims.sub)]

NoService == [state |-> "none", project_id |-> <<>>, scoped_project_id |-> <<>>]

\* _AppCheckService.__init__(app), for a truthy app.project_id
NewService(project_id) ==
    [state |-> "ready", project_id |-> project_id.v,
     scoped_project_id |-> ScopedProjectId(project_id.v)]

\* nothing kept of a previous call
NoLast == [set |-> FALSE, token |-> NoToken, claims |-> NoClaims, key |-> NoKey]

\* the locals of a call that has not started
IdleCall ==
    [pc |-> "idle", token |-> NoToken, signing_key |-> NoKey,
     payload |-> NoClaims, clock_read |-> Absent, outcome |-> Pending,
     steps |-> <<>>]

----------------------------------------------------------------------------
(* Listing users and provider configs (_user_mgt.py, _auth_providers.py)   *)

MAX_LIST_USERS_RESULTS == 1000
MAX_LIST_CONFIGS_RESULTS == 100

\* the listings: the users, the OIDC and the SAML provider configs
Listings == {"users", "oidc", "saml"}

\* the path a listing's download function requests
ListPath(kind) ==
    CASE kind = "users" -> "/accounts:batchGet"
      [] kind = "oidc" -> "/oauthIdpConfigs"
      [] kind = "saml" -> "/inboundSamlConfigs"

\* the maximum of users taken for every listing
MaxUsersResults(kind) == MAX_LIST_USERS_RESULTS

\* the largest max_results a listing's download function accepts
MaxListResults(kind) ==
    IF kind = "users" THEN MAX_LIST_USERS_RESULTS
    ELSE MAX_LIST_CONFIGS_RESULTS

\* page_token arguments of a caller
PageTokens == {None, Str(<<>>), Str(<<"t0">>), Num(7)}

\* max_results arguments of a caller
MaxResults ==
    {None, Str(<<"10">>), Num(0), Num(1), Num(MAX_LIST_CONFIGS_RESULTS),
     Num(MAX_LIST_CONFIGS_RESULTS + 1), Num(MAX_LIST_USERS_RESULTS),
     Num(MAX_LIST_USERS_RESULTS + 1)}

\* what the server may put under nextPageToken of a page it returns
NextTokens == {Absent, None, Str(<<>>), Str(<<"t1">>), Str(<<"t2">>)}

\* a response body: the dict the download function returns
Body(next) == [nextPageToken |-> next]

\* the server's replies to a list request: a body, or a failed request
ListReplies ==
    {[ok |-> TRUE, body |-> Body(next)] : next \in NextTokens}
        \cup {[ok |-> FALSE, body |-> Body(Absent)]}

NoRequest == [method |-> "none", path |-> "", params |-> <<>>]

\* the params of a list request: a dict for users, a query string for
\* provider configs; the page token goes in only if it is truthy
ListParams(kind, page_token, max_results) ==
    IF kind = "users"
    THEN [maxResults |-> max_results,
          nextPageToken |-> IF Truthy(page_token) THEN page_token ELSE Absent]
    ELSE <<"pageSize=", max_results>>
             \o (IF Truthy(page_token) THEN <<"&pageToken=", page_token>>
                 ELSE <<>>)

\* the argument checks of list_users and _fetch_provider_configs: the
\* message of the ValueError raised, "" if none is
ListArgumentError(kind, page_token, max_results) ==
    IF /\ page_token.t # "none"
       /\ page_token.t # "str" \/ ~Truthy(page_token)
    THEN "Page token must be a non-empty string."
    ELSE IF max_results.t # "int"
    THEN "Max results must be an integer."
    ELSE IF \/ max_results.v[1] < 1
            \/ max_results.v[1] > MaxListResults(kind)
    THEN "Max results must be a positive integer"
    ELSE ""

\* list_users, _fetch_provider_configs: the download function of a listing,
\* called with page_token and max_results, the server answering reply
Download(kind, page_token, max_results, reply) ==
    LET error == ListArgumentError(kind, page_token, max_results)
        request == [method |-> "get", path |-> ListPath(kind),
                    params |-> ListParams(kind, page_token, max_results)]
    IN  IF error # ""
        THEN [exc |-> "ValueError", msg |-> error, request |-> NoRequest,
              body |-> Body(Absent)]
        ELSE IF ~reply.ok
        THEN [exc |-> "FirebaseError", msg |-> "", request |-> request,
              body |-> Body(Absent)]
        ELSE [exc |-> "none", msg |-> "", request |-> request,
              body |-> reply.body]

\* ListUsersPage, ListProviderConfigsPage: __init__ where download returned
NewPage(kind, max_results, current) ==
    [download |-> kind, max_results |-> max_results, current |-> current]

\* next_page_token: _current.get('nextPageToken', '')
NextPageToken(page) ==
    IF page.current.nextPageToken.t = "absent" THEN Str(<<>>)
    ELSE page.current.nextPageToken

\* 'nextPageToken' in _current, in place of bool(next_page_token)
HasNextPageTokenKey(page) == page.current.nextPageToken.t # "absent"

\* has_next_page: bool(next_page_token)
HasNextPage(page) == Truthy(NextPageToken(page))

\* the record of one call of the download function
DownloadCall(page_token, max_results, got) ==
    [page_token |-> page_token, max_results |-> max_results,
     exc |-> got.exc, request |-> got.request]

NoListing == [state |-> "idle", exc |-> "none", kind |-> "none"]

----------------------------------------------------------------------------
(* Deleting users (_user_mgt.py) *)

\* the most uids delete_users takes
MAX_DELETE_UIDS == 1000

\* uid values: two valid ones, the empty string, None
Uids == {Str(<<"uid-1">>), Str(<<"uid-2">>), Str(<<>>), None}

\* sequences of at most n elements of S
SeqUpTo(S, n) == UNION {[1..k -> S] : k \in 0..n}

\* the uids argument: head, then fill further valid uids
UidLists ==
    [head : SeqUpTo(Uids, MaxHead),
     fill : {0, MAX_DELETE_UIDS - 1, MAX_DELETE_UIDS}]

\* len(uids)
UidsLen(uids) == Len(uids.head) + uids.fill

\* _auth_utils.validate_uid(uid, required=True) returns: uid is a non-empty
\* string (of at most 128 characters); it raises ValueError otherwise
ValidateUid(uid) == uid.t = "str" /\ uid.v # <<>>

\* an entry of 'errors' in a batchDelete response
ServerError(index) == [index |-> index, message |-> "NOT_DISABLED"]

\* ErrorInfo(err): the index and the reason of a server error
ErrorInfo(err) == [index |-> err.index, reason |-> err.message]

\* what a batchDelete response may carry under 'errors'
ErrorLists ==
    {Absent, None}
        \cup {List([i \in 1..k |-> ServerError(i - 1)]) : k \in 0..MaxErrors}

\* the server's replies to a batchDelete request: a dict, a body that is
\* not a dict, or a failed request
DeleteReplies ==
    {[ok |-> TRUE, dict |-> TRUE, errors |-> e] : e \in ErrorLists}
        \cup {[ok |-> TRUE, dict |-> FALSE, errors |-> Absent],
              [ok |-> FALSE, dict |-> FALSE, errors |-> Absent]}

\* BatchDeleteAccountsResponse(errors): None and [] give no errors
BatchDeleteAccountsResponse(errors) ==
    [errors |-> IF Truthy(errors)
                THEN [i \in 1..Len(errors.v) |-> ErrorInfo(errors.v[i])]
                ELSE <<>>]

\* the batchDelete request with force left False
DeleteRequestUnforced(uids, force_delete) ==
    [method |-> "post", path |-> "/accounts:batchDelete",
     json |-> [localIds |-> uids, force |-> FALSE]]

\* the batchDelete request of delete_users
DeleteRequest(uids, force_delete) ==
    [method |-> "post", path |-> "/accounts:batchDelete",
     json |-> [localIds |-> uids, force |-> force_delete]]

\* UserManager.delete_users(uids, force_delete), the server answering reply
DeleteUsers(uids, force_delete, reply) ==
    LET raise(exc, requests) ==
            [state |-> "raised", exc |-> exc,
             response |-> BatchDeleteAccountsResponse(None),
             requests |-> requests]
        request == DeleteRequest(uids, force_delete)
    IN  IF UidsLen(uids) = 0
        THEN [state |-> "returned", exc |-> "none",
              response |-> BatchDeleteAccountsResponse(None),
              requests |-> <<>>]
        ELSE IF UidsLen(uids) > MAX_DELETE_UIDS
        THEN raise("ValueError", <<>>)
        ELSE IF \E i \in 1..Len(uids.head) : ~ValidateUid(uids.head[i])
        THEN raise("ValueError", <<>>)
        ELSE IF ~reply.ok
        THEN raise("FirebaseError", <<request>>)
        ELSE IF ~reply.dict
        THEN raise("UnexpectedResponseError", <<request>>)
        ELSE [state |-> "returned", exc |-> "none",
              response |->
                  BatchDeleteAccountsResponse(
                      IF reply.errors.t = "absent" THEN List(<<>>)
                      ELSE reply.errors),
              requests |-> <<request>>]

\* total - len(errors) left out of success_count
DeleteUsersResultUncounted(result, total) ==
    [built |-> TRUE, total |-> total, success_count |-> total,
     failure_count |-> Len(result.errors), errors |-> result.errors]

\* DeleteUsersResult(result, total)
DeleteUsersResult(result, total) ==
    [built |-> TRUE, total |-> total,
     success_count |-> total - Len(result.errors),
     failure_count |-> Len(result.errors), errors |-> result.errors]

NoDeletion ==
    [state |-> "idle", exc |-> "none", uids |-> [head |-> <<>>, fill |-> 0],
     force_delete |-> FALSE,
     reply |-> [ok |-> FALSE, dict |-> FALSE, errors |-> Absent],
     response |-> BatchDeleteAccountsResponse(None)]

NoResult ==
    [built |-> FALSE, total |-> 0, success_count |-> 0, failure_count |-> 0,
     errors |-> <<>>]

----------------------------------------------------------------------------
(* Looking up users (_user_mgt.py) *)

\* the most identifiers get_users takes
MAX_GET_USERS == 100

\* the identifier classes of _user_identifier, and an object of none of them
UidIdentifier(uid) == [class |-> "UidIdentifier", v |-> <<uid>>]
EmailIdentifier(email) == [class |-> "EmailIdentifier", v |-> <<email>>]
PhoneIdentifier(phone_number) ==
    [class |-> "PhoneIdentifier", v |-> <<phone_number>>]
ProviderIdentifier(provider_id, provider_uid) ==
    [class |-> "ProviderIdentifier", v |-> <<provider_id, provider_uid>>]
NotAnIdentifier(value) == [class |-> "str", v |-> <<value>>]

\* the identifiers a caller writes out
Identifiers ==
    {UidIdentifier("uid-1"), UidIdentifier("uid-2"),
     EmailIdentifier("a@example.com"), PhoneIdentifier("+15555550001"),
     ProviderIdentifier("google.com", "g-1"), NotAnIdentifier("uid-1")}

\* n further identifiers of users by uid
Fill(n) == [i \in 1..n |-> UidIdentifier("uid-0")]

\* the identifiers argument: a few written out, then n further ones
IdentifierLists ==
    {head \o Fill(n) :
        head \in SeqUpTo(Identifiers, MaxIdentifiers),
        n \in {0, MAX_GET_USERS - 1, MAX_GET_USERS}}

IdentifierClasses ==
    {"UidIdentifier", "EmailIdentifier", "PhoneIdentifier",
     "ProviderIdentifier"}

\* every identifier goes under localId
UnderLocalId(identifier) == "localId"

\* the key of the payload an identifier of a known class is appended under
PayloadKey(identifier) ==
    CASE identifier.class = "UidIdentifier" -> "localId"
      [] identifier.class = "EmailIdentifier" -> "email"
      [] identifier.class = "PhoneIdentifier" -> "phoneNumber"
      [] identifier.class = "ProviderIdentifier" -> "federatedUserId"

\* what is appended for an identifier of a known class
PayloadEntry(identifier) ==
    IF identifier.class = "ProviderIdentifier"
    THEN [providerId |-> identifier.v[1], rawId |-> identifier.v[2]]
    ELSE identifier.v[1]

\* the list the loop over identifiers leaves under a key of the payload, a
\* collections.defaultdict(list): the entries of the identifiers of that
\* key, in order; a key the loop never touched is shown by the empty list
PayloadList(identifiers, key) ==
    LET under == SelectSeq(identifiers, LAMBDA id : PayloadKey(id) = key)
    IN  [i \in 1..Len(under) |-> PayloadEntry(under[i])]

\* the loop over identifiers: the payload built, or the ValueError of the
\* first identifier of an unsupported type
BuildPayload(identifiers) ==
    IF \E i \in 1..Len(identifiers) :
           identifiers[i].class \notin IdentifierClasses
    THEN [exc |-> "ValueError", payload |-> <<>>]
    ELSE [exc |-> "none",
          payload |->
              [key \in {"localId", "email", "phoneNumber", "federatedUserId"}
                  |-> PayloadList(identifiers, key)]]

\* the server's replies to a lookup request: a response that is ok or not,
\* with or without users, or a failed request
LookupReplies ==
    {[sent |-> TRUE, ok |-> ok, users |-> users] :
        ok \in BOOLEAN, users \in {Absent, List(<<>>), List(<<"user-1">>)}}
        \cup {[sent |-> FALSE, ok |-> FALSE, users |-> Absent]}

\* the lookup request of get_users
LookupRequest(json) ==
    [method |-> "post", path |-> "/accounts:lookup", json |-> json]

\* UserManager.get_users(identifiers), the server answering reply
GetUsers(identifiers, reply) ==
    LET built == BuildPayload(identifiers)
        request == LookupRequest(built.payload)
        raise(exc, requests) ==
            [state |-> "raised", exc |-> exc, users |-> <<>>,
             requests |-> requests]
    IN  IF Len(identifiers) = 0
        THEN [state |-> "returned", exc |-> "none", users |-> <<>>,
              requests |-> <<>>]
        ELSE IF Len(identifiers) > MAX_GET_USERS
        THEN raise("ValueError", <<>>)
        ELSE IF built.exc # "none"
        THEN raise(built.exc, <<>>)
        ELSE IF ~reply.sent
        THEN raise("FirebaseError", <<request>>)
        ELSE IF ~reply.ok
        THEN raise("UnexpectedResponseError", <<request>>)
        ELSE [state |-> "returned", exc |-> "none",
              users |-> IF reply.users.t = "absent" THEN <<>>
                        ELSE reply.users.v,
              requests |-> <<request>>]

NoLookup ==
    [state |-> "idle", exc |-> "none", identifiers |-> <<>>, users |-> <<>>]

----------------------------------------------------------------------------
(* Errors of googleapiclient turned into FirebaseErrors (_gapic_utils.py) *)

\* the classes of the errors handled; socket.timeout is a socket.error
ErrorClasses ==
    {"socket.timeout", "socket.error", "httplib2.ServerNotFoundError",
     "googleapiclient.errors.HttpError", "ValueError"}

\* str(error), in pieces
ErrorTexts == {<<"The read operation ", "timed out">>, <<"refused">>}

\* the HTTP statuses of an HttpError
Statuses == {400, 404, 418, 500, 503}

\* the errors: only an HttpError has a response with a status
Errors ==
    {[class |-> c, text |-> t, status |-> 0] :
        c \in ErrorClasses \ {"googleapiclient.errors.HttpError"},
        t \in ErrorTexts}
        \cup {[class |-> "googleapiclient.errors.HttpError", text |-> t,
               status |-> st] : t \in ErrorTexts, st \in Statuses}

\* isinstance(error, class)
IsInstance(error, class) ==
    \/ error.class = class
    \/ error.class = "socket.timeout" /\ class = "socket.error"

\* the code argument: GCP error codes, one that is none, the empty string
Codes ==
    {None, Str(<<>>), Str(<<"NOT_FOUND">>), Str(<<"UNAVAILABLE">>),
     Str(<<"NO_SUCH_CODE">>)}

\* the message argument
Messages == {None, Str(<<>>), Str(<<"custom message">>)}

\* the http_response argument: none, or a response the caller made
HttpResponses == {None, Str(<<"given">>)}

\* _utils._http_status_to_error_code(status)
HttpStatusToErrorCode(status) ==
    CASE status = 400 -> Str(<<"INVALID_ARGUMENT">>)
      [] status = 404 -> Str(<<"NOT_FOUND">>)
      [] status = 500 -> Str(<<"INTERNAL">>)
      [] status = 503 -> Str(<<"UNAVAILABLE">>)
      [] OTHER -> Str(<<"UNKNOWN">>)

\* _utils._error_code_to_exception_type(code)
ErrorCodeToExceptionType(code) ==
    CASE code = Str(<<"INVALID_ARGUMENT">>) -> "InvalidArgumentError"
      [] code = Str(<<"NOT_FOUND">>) -> "NotFoundError"
      [] code = Str(<<"INTERNAL">>) -> "InternalError"
      [] code = Str(<<"UNAVAILABLE">>) -> "UnavailableError"
      [] OTHER -> "UnknownError"

\* _http_response_from_googleapiclient_error(error)
HttpResponseFromError(error) == Str(<<"made from the error", error.status>>)

\* a FirebaseError
FirebaseError(type, message, cause, http_response) ==
    [type |-> type, message |-> message, cause |-> cause,
     http_response |-> http_response]

\* the code is derived from the HTTP status whatever code is supplied
CodeOfStatus(code, status) == HttpStatusToErrorCode(status)

\* 'if not code: code = _http_status_to_error_code(error.resp.status)'
CodeOrOfStatus(code, status) ==
    IF ~Truthy(code) THEN HttpStatusToErrorCode(status) ELSE code

\* handle_googleapiclient_error(error, message, code, http_response)
HandleGoogleapiclientError(error, message, code, http_response) ==
    IF \/ IsInstance(error, "socket.timeout")
       \/ /\ IsInstance(error, "socket.error")
          /\ IsSubstring(<<"timed out">>, error.text)
    THEN FirebaseError("DeadlineExceededError",
                       <<"Timed out while making an API call: ">>
                           \o error.text,
                       error, None)
    ELSE IF IsInstance(error, "httplib2.ServerNotFoundError")
    THEN FirebaseError("UnavailableError",
                       <<"Failed to establish a connection: ">> \o error.text,
                       error, None)
    ELSE IF ~IsInstance(error, "googleapiclient.errors.HttpError")
    THEN FirebaseError("UnknownError",
                       <<"Unknown error while making a remote service call: ">>
                           \o error.text,
                       error, None)
    ELSE FirebaseError(
             ErrorCodeToExceptionType(CodeOrOfStatus(code, error.status)),
             IF ~Truthy(message) THEN error.text ELSE message.v,
             error,
             IF ~Truthy(http_response) THEN HttpResponseFromError(error)
             ELSE http_response)

\* what a handle_func may return: None, or an exception of its own
HandleFuncResults == {None, Str(<<"CustomError">>)}

\* the 'status' of the error_dict parsed from the content of an HttpError
ErrorDictStatuses == {Absent} \cup (Codes \ {Str(<<>>)})

\* the message _parse_platform_error gives
PlatformMessage(error) == Str(<<"platform: ">> \o error.text)

\* handle_platform_error_from_googleapiclient(error, handle_func), where
\* the content parses to an error_dict with this status and handle_func
\* (None for none) returns exc
HandlePlatformError(error, status, exc) ==
    IF ~IsInstance(error, "googleapiclient.errors.HttpError")
    THEN HandleGoogleapiclientError(error, None, None, None)
    ELSE IF Truthy(exc)
    THEN FirebaseError(exc.v[1], PlatformMessage(error).v, error,
                       HttpResponseFromError(error))
    ELSE HandleGoogleapiclientError(error, PlatformMessage(error),
                                    Get(status), HttpResponseFromError(error))

NoError == [class |-> "none", text |-> <<>>, status |-> 0]

NoHandled ==
    [state |-> "idle", error |-> NoError, message |-> None, code |-> None,
     http_response |-> None,
     result |-> FirebaseError("none", <<>>, NoError, None)]

----------------------------------------------------------------------------
(* Exported user records (_user_mgt.py) *)

\* a bytes value, with the same pieces as a string
Bytes(s) == [t |-> "bytes", v |-> s]

\* the base64 text of a piece
Base64Text(piece) ==
    CASE piece = "REDACTED" -> "UkVEQUNURUQ="
      [] piece = "hash" -> "aGFzaA=="
      [] piece = "salt" -> "c2FsdA=="

\* base64.b64encode(s): bytes in, bytes out
B64Encode(s) == Bytes([i \in 1..Len(s.v) |-> Base64Text(s.v[i])])

B64_REDACTED == B64Encode(Bytes(<<"REDACTED">>))

\* a == b: a str and a bytes value are never equal, whatever their text
Equals(a, b) == a.t = b.t /\ a.v = b.v

\* what the JSON decoder makes of a base64 string the server sends
ServerText(piece) == Str(<<Base64Text(piece)>>)

\* what a record may hold under 'passwordHash': nothing, the empty string,
\* a hash, the redacted marker as the server sends it, and the marker as
\* bytes
PasswordHashes ==
    {Absent, Str(<<>>), ServerText("hash"), ServerText("REDACTED"),
     B64Encode(Bytes(<<"REDACTED">>))}

\* what a record may hold under 'salt'
Salts == {Absent, Str(<<>>), ServerText("salt")}

\* the data of user records
UserData ==
    [localId : {Absent, Str(<<>>), Str(<<"uid-1">>), Str(<<"uid-2">>)},
     passwordHash : PasswordHashes, salt : Salts]

\* a property of the record that was not read
Unread == [t |-> "unread", v |-> <<>>]

\* UserRecord.__init__(data) raises for data without a localId
UserRecordError(data) ==
    IF ~Truthy(data.localId) THEN "ValueError" ELSE "none"

\* ExportedUserRecord.password_hash
PasswordHash(data) ==
    LET password_hash == Get(data.passwordHash)
    IN  IF Equals(password_hash, B64_REDACTED) THEN None ELSE password_hash

\* ExportedUserRecord.password_salt
PasswordSalt(data) == Get(data.salt)

NoUserData == [localId |-> Absent, passwordHash |-> Absent, salt |-> Absent]

NoExported ==
    [state |-> "idle", data |-> NoUserData, password_hash |-> Unread,
     password_salt |-> Unread]

----------------------------------------------------------------------------
(* OIDC and SAML provider configs (_auth_providers.py) *)

\* _user_mgt.DELETE_ATTRIBUTE, a sentinel equal to nothing but itself
DELETE_ATTRIBUTE == [t |-> "sentinel", v |-> <<"DELETE_ATTRIBUTE">>]

\* arguments of the calls
ProviderIds ==
    {None, Str(<<>>), Str(<<"oidc.", "provider">>),
     Str(<<"saml.", "provider">>)}
ClientIds == {None, Str(<<>>), Str(<<"client-id">>)}
Urls == {None, Str(<<"not a url">>), Str(<<"https://", "idp.example">>)}
DisplayNames == {None, Str(<<"name">>), DELETE_ATTRIBUTE}
Enableds == {None, Bool(TRUE)}
ClientSecrets == {None, Str(<<>>), Str(<<"secret">>)}
ResponseTypes == {None, Bool(TRUE), Bool(FALSE), Str(<<"yes">>)}
EntityIds == {None, Str(<<>>), Str(<<"entity">>)}
Certificates == {None, List(<<>>), List(<<<<"certificate">>>>)}

\* the arguments of a call: those an operation does not take are None
NoArguments ==
    [provider_id |-> None, client_id |-> None, issuer |-> None,
     display_name |-> None, enabled |-> None, client_secret |-> None,
     id_token_response_type |-> None, code_response_type |-> None,
     idp_entity_id |-> None, sso_url |-> None, x509_certificates |-> None,
     rp_entity_id |-> None, callback_url |-> None]

\* the arguments of create_oidc_provider_config and
\* update_oidc_provider_config
OidcArguments ==
    {[NoArguments EXCEPT
         !.provider_id = provider_id, !.client_id = client_id,
         !.issuer = issuer, !.display_name = display_name,
         !.enabled = enabled, !.client_secret = client_secret,
         !.id_token_response_type = id_token_response_type,
         !.code_response_type = code_response_type] :
        provider_id \in ProviderIds \ {None}, client_id \in ClientIds,
        issuer \in Urls, display_name \in DisplayNames, enabled \in Enableds,
        client_secret \in ClientSecrets,
        id_token_response_type \in ResponseTypes \ {Str(<<"yes">>)},
        code_response_type \in ResponseTypes}

\* the arguments of update_saml_provider_config
SamlArguments ==
    {[NoArguments EXCEPT
         !.provider_id = provider_id, !.idp_entity_id = idp_entity_id,
         !.sso_url = sso_url, !.x509_certificates = x509_certificates,
         !.rp_entity_id = rp_entity_id, !.callback_url = callback_url,
         !.display_name = display_name, !.enabled = enabled] :
        provider_id \in ProviderIds \ {Str(<<>>)},
        idp_entity_id \in EntityIds, sso_url \in Urls,
        x509_certificates \in Certificates,
        rp_entity_id \in EntityIds \ {Str(<<>>)},
        callback_url \in Urls \ {Str(<<"not a url">>)},
        display_name \in DisplayNames, enabled \in Enableds}

\* _validate_oidc_provider_id, _validate_saml_provider_id: the message of
\* the ValueError raised, "" if none is
ValidateProviderId(provider_id, prefix) ==
    IF provider_id.t # "str" THEN "Provider ID must be a non-empty string."
    ELSE IF ~StartsWith(provider_id.v, <<prefix>>)
    THEN "Invalid provider ID"
    ELSE ""

\* _validate_non_empty_string(value, label)
ValidateNonEmptyString(value) ==
    IF value.t # "str" THEN "Invalid type"
    ELSE IF value.v = <<>> THEN "must not be empty"
    ELSE ""

\* _validate_url(url, label): a string that urlparse finds a netloc in
ValidateUrl(url) ==
    IF url.t # "str" \/ url.v = <<>> THEN "must be a non-empty string"
    ELSE IF ~(Len(url.v) >= 2 /\ url.v[1] \in {"http://", "https://"})
    THEN "Malformed"
    ELSE ""

\* _validate_x509_certificates(x509_certificates)
ValidateX509Certificates(x509_certificates) ==
    IF x509_certificates.t # "list" \/ x509_certificates.v = <<>>
    THEN "x509_certificates must be a non-empty list."
    ELSE IF \E i \in 1..Len(x509_certificates.v) :
                x509_certificates.v[i] = <<>>
    THEN "x509_certificates must only contain non-empty strings."
    ELSE ""

\* what _validate_x509_certificates returns
X509Certificates(x509_certificates) ==
    List([i \in 1..Len(x509_certificates.v) |->
             [x509Certificate |-> x509_certificates.v[i]]])

\* _auth_utils.validate_string(value, label)
ValidateString(value) == IF value.t # "str" THEN "Invalid type" ELSE ""

\* _auth_utils.validate_boolean(value, label)
ValidateBoolean(value) == IF value.t # "bool" THEN "Invalid type" ELSE ""

\* the first message of a sequence of checks that is not "", "" if all are
RECURSIVE FirstError(_)
FirstError(checks) ==
    IF checks = <<>> THEN ""
    ELSE IF Head(checks) # "" THEN Head(checks)
    ELSE FirstError(Tail(checks))

\* a check made only if the value is not None
IfGiven(value, check) == IF value.t = "none" THEN "" ELSE check

\* a value put in the request only under a condition
PutIf(condition, value) == IF condition THEN value ELSE Absent

\* the response_type dict is empty
NoResponseType == [idToken |-> Absent, code |-> Absent]

\* the body of a request, a key that is not in it shown by Absent
EmptyBody ==
    [clientId |-> Absent, issuer |-> Absent, displayName |-> Absent,
     enabled |-> Absent, clientSecret |-> Absent, responseType |-> Absent,
     idpConfig |-> Absent, spConfig |-> Absent]

\* the checks both OIDC operations make of the response types, in the order
\* of the code
ResponseTypeChecks(args) ==
    <<IF /\ args.id_token_response_type = Bool(FALSE)
         /\ args.code_response_type = Bool(FALSE)
      THEN "At least one response type must be returned." ELSE "",
      IfGiven(args.id_token_response_type,
              ValidateBoolean(args.id_token_response_type)),
      IfGiven(args.code_response_type,
              ValidateBoolean(args.code_response_type)),
      IF Truthy(args.code_response_type)
      THEN ValidateNonEmptyString(args.client_secret) ELSE "">>

\* req['clientSecret'], set only if code_response_type is true
ClientSecret(args) ==
    PutIf(Truthy(args.code_response_type), args.client_secret)

\* req['responseType'], were the response_type dict put in it even empty
ResponseTypeUnconditional(args) ==
    [idToken |-> PutIf(args.id_token_response_type.t # "none",
                       args.id_token_response_type),
     code |-> PutIf(args.code_response_type.t # "none",
                    args.code_response_type)]

\* req['responseType']: the response_type dict, if it is not empty
ResponseType(args) ==
    LET response_type ==
            [idToken |-> PutIf(args.id_token_response_type.t # "none",
                               args.id_token_response_type),
             code |-> PutIf(args.code_response_type.t # "none",
                            args.code_response_type)]
    IN  PutIf(response_type # NoResponseType, response_type)

\* req['displayName'] of an update, were DELETE_ATTRIBUTE left out of it
UpdatedDisplayNameKept(display_name) ==
    IF display_name.t = "none" \/ display_name = DELETE_ATTRIBUTE THEN Absent
    ELSE display_name

\* req['displayName'] of an update: null for DELETE_ATTRIBUTE
UpdatedDisplayName(display_name) ==
    IF display_name.t = "none" THEN Absent
    ELSE IF display_name = DELETE_ATTRIBUTE THEN None
    ELSE display_name

\* the paths of the fields a body may have, sorted
BodyPaths ==
    <<"clientId", "clientSecret", "displayName", "enabled",
      "idpConfig.idpCertificates", "idpConfig.idpEntityId", "idpConfig.ssoUrl",
      "issuer", "responseType.code", "responseType.idToken",
      "spConfig.callbackUri", "spConfig.spEntityId">>

\* the body has a field at this path
HasPath(body, path) ==
    CASE path = "responseType.code" ->
             body.responseType # Absent /\ body.responseType.code # Absent
      [] path = "responseType.idToken" ->
             body.responseType # Absent /\ body.responseType.idToken # Absent
      [] path = "idpConfig.idpCertificates" ->
             /\ body.idpConfig # Absent
             /\ body.idpConfig.idpCertificates # Absent
      [] path = "idpConfig.idpEntityId" ->
             body.idpConfig # Absent /\ body.idpConfig.idpEntityId # Absent
      [] path = "idpConfig.ssoUrl" ->
             body.idpConfig # Absent /\ body.idpConfig.ssoUrl # Absent
      [] path = "spConfig.callbackUri" ->
             body.spConfig # Absent /\ body.spConfig.callbackUri # Absent
      [] path = "spConfig.spEntityId" ->
             body.spConfig # Absent /\ body.spConfig.spEntityId # Absent
      [] OTHER -> body[path] # Absent

\* _auth_utils.build_update_mask(req): the sorted paths of the fields of
\* the body, those of a nested dict under the key of the dict
BuildUpdateMask(body) ==
    SelectSeq(BodyPaths, LAMBDA path : HasPath(body, path))

\* ','.join(mask)
RECURSIVE Join(_)
Join(mask) ==
    IF Len(mask) <= 1 THEN mask
    ELSE <<Head(mask), ",">> \o Join(Tail(mask))

\* the outcome of a call that raised exc before or after its request
ProviderRaised(exc, msg, requests) ==
    [state |-> "raised", exc |-> exc, msg |-> msg, requests |-> requests]

\* the outcome of a call whose checks gave error and whose request, if it
\* is sent, the server answers with ok
ProviderOutcome(error, request, ok) ==
    IF error # "" THEN ProviderRaised("ValueError", error, <<>>)
    ELSE IF ~ok THEN ProviderRaised("FirebaseError", "", <<request>>)
    ELSE [state |-> "returned", exc |-> "none", msg |-> "",
          requests |-> <<request>>]

\* create_oidc_provider_config(provider_id, client_id, issuer, ...)
CreateOidcProviderConfig(args, ok) ==
    LET error ==
            FirstError(
                <<ValidateProviderId(args.provider_id, "oidc."),
                  ValidateNonEmptyString(args.client_id),
                  ValidateUrl(args.issuer),
                  IfGiven(args.display_name,
                          ValidateString(args.display_name)),
                  IfGiven(args.enabled, ValidateBoolean(args.enabled))>>
                    \o ResponseTypeChecks(args))
        req == [EmptyBody EXCEPT
                   !.clientId = args.client_id,
                   !.issuer = args.issuer,
                   !.displayName =
                       PutIf(args.display_name.t # "none", args.display_name),
                   !.enabled = PutIf(args.enabled.t # "none", args.enabled),
                   !.clientSecret = ClientSecret(args),
                   !.responseType = ResponseType(args)]
        request ==
            [method |-> "post", path |-> <<"/oauthIdpConfigs">>, json |-> req,
             params |-> <<"oauthIdpConfigId=">> \o args.provider_id.v]
    IN  ProviderOutcome(error, request, ok)

\* update_oidc_provider_config(provider_id, client_id, issuer, ...)
UpdateOidcProviderConfig(args, ok) ==
    LET req == [EmptyBody EXCEPT
                   !.displayName = UpdatedDisplayName(args.display_name),
                   !.enabled = PutIf(args.enabled.t # "none", args.enabled),
                   !.clientId = PutIf(Truthy(args.client_id), args.client_id),
                   !.issuer = PutIf(Truthy(args.issuer), args.issuer),
                   !.clientSecret = ClientSecret(args),
                   !.responseType = ResponseType(args)]
        error ==
            FirstError(
                <<ValidateProviderId(args.provider_id, "oidc."),
                  IF args.display_name = DELETE_ATTRIBUTE THEN ""
                  ELSE IfGiven(args.display_name,
                               ValidateString(args.display_name)),
                  IfGiven(args.enabled, ValidateBoolean(args.enabled)),
                  IF Truthy(args.client_id)
                  THEN ValidateNonEmptyString(args.client_id) ELSE "",
                  IF Truthy(args.issuer) THEN ValidateUrl(args.issuer)
                  ELSE "">>
                    \o ResponseTypeChecks(args)
                    \o <<IF req = EmptyBody
                         THEN "At least one parameter must be specified"
                         ELSE "">>)
        request ==
            [method |-> "patch",
             path |-> <<"/oauthIdpConfigs/">> \o args.provider_id.v,
             json |-> req,
             params |-> <<"updateMask=">> \o Join(BuildUpdateMask(req))]
    IN  ProviderOutcome(error, request, ok)

\* update_saml_provider_config(provider_id, idp_entity_id, sso_url, ...)
UpdateSamlProviderConfig(args, ok) ==
    LET idp_config ==
            [idpEntityId |->
                 PutIf(args.idp_entity_id.t # "none", args.idp_entity_id),
             ssoUrl |-> PutIf(args.sso_url.t # "none", args.sso_url),
             idpCertificates |->
                 PutIf(args.x509_certificates.t = "list",
                       X509Certificates(args.x509_certificates))]
        sp_config ==
            [spEntityId |->
                 PutIf(args.rp_entity_id.t # "none", args.rp_entity_id),
             callbackUri |->
                 PutIf(args.callback_url.t # "none", args.callback_url)]
        req == [EmptyBody EXCEPT
                   !.displayName = UpdatedDisplayName(args.display_name),
                   !.enabled = PutIf(args.enabled.t # "none", args.enabled),
                   !.idpConfig =
                       PutIf(\E key \in DOMAIN idp_config :
                                 idp_config[key] # Absent, idp_config),
                   !.spConfig =
                       PutIf(\E key \in DOMAIN sp_config :
                                 sp_config[key] # Absent, sp_config)]
        error ==
            FirstError(
                <<ValidateProviderId(args.provider_id, "saml."),
                  IfGiven(args.idp_entity_id,
                          ValidateNonEmptyString(args.idp_entity_id)),
                  IfGiven(args.sso_url, ValidateUrl(args.sso_url)),
                  IfGiven(args.x509_certificates,
                          ValidateX509Certificates(args.x509_certificates)),
                  IfGiven(args.rp_entity_id,
                          ValidateNonEmptyString(args.rp_entity_id)),
                  IfGiven(args.callback_url, ValidateUrl(args.callback_url)),
                  IF args.display_name = DELETE_ATTRIBUTE THEN ""
                  ELSE IfGiven(args.display_name,
                               ValidateString(args.display_name)),
                  IfGiven(args.enabled, ValidateBoolean(args.enabled)),
                  IF req = EmptyBody
                  THEN "At least one parameter must be specified"
                  ELSE "">>)
        request ==
            [method |-> "patch",
             path |-> <<"/inboundSamlConfigs/">> \o args.provider_id.v,
             json |-> req,
             params |-> <<"updateMask=">> \o Join(BuildUpdateMask(req))]
    IN  ProviderOutcome(error, request, ok)

NoProvider ==
    [state |-> "idle", operation |-> "none", args |-> NoArguments,
     exc |-> "none", msg |-> ""]

----------------------------------------------------------------------------
(* The state machine *)

Init ==
    /\ app_project_id \in ProjectIds
    /\ service = NoService
    /\ jwks = [k \in Kids |-> IF k = "kid-1" THEN "key-A" ELSE NoKey]
    /\ now = 0
    /\ pc = "idle"
    /\ token = NoToken
    /\ signing_key = NoKey
    /\ payload = NoClaims
    /\ clock_read = Absent
    /\ outcome = Pending
    /\ steps = <<>>
    /\ last = NoLast
    /\ peer = IdleCall
    /\ listing = NoListing
    /\ chain = <<>>
    /\ downloads = <<>>
    /\ deletion = NoDeletion
    /\ delete_requests = <<>>
    /\ delete_result = NoResult
    /\ lookup = NoLookup
    /\ lookup_requests = <<>>
    /\ handled = NoHandled
    /\ exported = NoExported
    /\ provider = NoProvider
    /\ provider_requests = <<>>

Fail(exc) ==
    /\ outcome' = exc
    /\ pc' = "done"

\* verify_token(token, app) is called
Call(tok) ==
    /\ pc = "idle"
    /\ token' = tok
    /\ pc' = "get_service"
    /\ UNCHANGED <<last, peer, listVars, deleteVars, authVars>>
    /\ UNCHANGED <<app_project_id, service, jwks, now, signing_key, payload,
                   clock_read, outcome, steps>>

\* the service built again on every use, from the id it already scoped
GetAppCheckServiceRescoping ==
    /\ pc = "get_service"
    /\ steps' = Append(steps, "get_service")
    /\ \/ /\ service.state = "ready"
          /\ service' = NewService(Str(service.scoped_project_id))
          /\ pc' = "check_string"
          /\ UNCHANGED outcome
       \/ /\ service.state # "ready"
          /\ ~Truthy(app_project_id)
          /\ Fail(Raise("ValueError", "A project ID must be specified"))
          /\ UNCHANGED service
       \/ /\ service.state # "ready"
          /\ Truthy(app_project_id)
          /\ service' = NewService(app_project_id)
          /\ pc' = "check_string"
          /\ UNCHANGED outcome
    /\ UNCHANGED <<last, peer, listVars, deleteVars, authVars>>
    /\ UNCHANGED <<app_project_id, jwks, now, token, signing_key, payload,
                   clock_read>>

\* _get_app_check_service(app): the App's service, built on first use
GetAppCheckService ==
    /\ pc = "get_service"
    /\ steps' = Append(steps, "get_service")
    /\ \/ /\ service.state = "ready"
          /\ pc' = "check_string"
          /\ UNCHANGED <<service, outcome>>
       \/ /\ service.state # "ready"
          /\ ~Truthy(app_project_id)
          /\ Fail(Raise("ValueError", "A project ID must be specified"))
          /\ UNCHANGED service
       \/ /\ service.state # "ready"
          /\ Truthy(app_project_id)
          /\ service' = NewService(app_project_id)
          /\ pc' = "check_string"
          /\ UNCHANGED outcome
    /\ UNCHANGED <<last, peer, listVars, deleteVars, authVars>>
    /\ UNCHANGED <<app_project_id, jwks, now, token, signing_key, payload,
                   clock_read>>

\* _Validators.check_string("app check token", token)
CheckToken ==
    /\ pc = "check_string"
    /\ steps' = Append(steps, "check_string")
    /\ \/ /\ CheckString(token) # ""
          /\ Fail(Raise("ValueError", CheckString(token)))
       \/ /\ CheckString(token) = ""
          /\ pc' = "get_signing_key"
          /\ UNCHANGED outcome
    /\ UNCHANGED <<last, peer, listVars, deleteVars, authVars>>
    /\ UNCHANGED <<app_project_id, service, jwks, now, token, signing_key,
                   payload, clock_read>>

\* the key client asked a second time when it fails the first time
GetSigningKeyRetrying ==
    /\ pc = "get_signing_key"
    /\ steps' = Append(steps, "get_signing_key")
    /\ \E fetchOk \in BOOLEAN :
         LET got == GetSigningKeyFromJwt(token, jwks, fetchOk)
         IN  \/ /\ got.exc # "none"
                /\ IF \E i \in 1..Len(steps) : steps[i] = pc
                   THEN Fail(Propagate(Raise(got.exc, "signing key")))
                   ELSE UNCHANGED <<pc, outcome>>
                /\ UNCHANGED signing_key
             \/ /\ got.exc = "none"
                /\ signing_key' = got.key
                /\ pc' = "headers"
                /\ UNCHANGED outcome
    /\ UNCHANGED <<last, peer, listVars, deleteVars, authVars>>
    /\ UNCHANGED <<app_project_id, service, jwks, now, token, payload,
                   clock_read>>

\* signing_key = self._jwks_client.get_signing_key_from_jwt(token)
GetSigningKey ==
    /\ pc = "get_signing_key"
    /\ steps' = Append(steps, "get_signing_key")
    /\ \E fetchOk \in BOOLEAN :
         LET got == GetSigningKeyFromJwt(token, jwks, fetchOk)
         IN  \/ /\ got.exc # "none"
                /\ Fail(Propagate(Raise(got.exc, "signing key")))
                /\ UNCHANGED signing_key
             \/ /\ got.exc = "none"
                /\ signing_key' = got.key
                /\ pc' = "headers"
                /\ UNCHANGED outcome
    /\ UNCHANGED <<last, peer, listVars, deleteVars, authVars>>
    /\ UNCHANGED <<app_project_id, service, jwks, now, token, payload,
                   clock_read>>

\* self._has_valid_token_headers(jwt.get_unverified_header(token))
CheckHeaders ==
    /\ pc = "headers"
    /\ steps' = Append(steps, "headers")
    /\ \/ /\ HasValidTokenHeaders(Header(token)) # ""
          /\ Fail(Propagate(Raise("ValueError",
                                  HasValidTokenHeaders(Header(token)))))
       \/ /\ HasValidTokenHeaders(Header(token)) = ""
          /\ pc' = "decode"
          /\ UNCHANGED outcome
    /\ UNCHANGED <<last, peer, listVars, deleteVars, authVars>>
    /\ UNCHANGED <<app_project_id, service, jwks, now, token, signing_key,
                   payload, clock_read>>

\* verified_claims = self._decode_and_verify(token, signing_key.key)
Decode ==
    /\ pc = "decode"
    /\ steps' = Append(steps, "decode")
    /\ clock_read' = Num(now)
    /\ LET res == DecodeAndVerify(token, signing_key, service, now)
       IN  \/ /\ res.kind # "ok"
              /\ Fail(Propagate(res))
              /\ UNCHANGED payload
           \/ /\ res.kind = "ok"
              /\ payload' = res.claims
              /\ pc' = "app_id"
              /\ UNCHANGED outcome
    /\ UNCHANGED <<last, peer, listVars, deleteVars, authVars>>
    /\ UNCHANGED <<app_project_id, service, jwks, now, token, signing_key>>

\* verified_claims['app_id'] = ...; return verified_claims
SetAppId ==
    /\ pc = "app_id"
    /\ steps' = Append(steps, "app_id")
    /\ payload' = WithAppId(payload)
    /\ outcome' = Return(WithAppId(payload))
    /\ pc' = "done"
    /\ UNCHANGED <<last, peer, listVars, deleteVars, authVars>>
    /\ UNCHANGED <<app_project_id, service, jwks, now, token, signing_key,
                   clock_read>>

\* the caller has the result; the call's locals are gone
Finish ==
    /\ pc = "done"
    /\ pc' = "idle"
    /\ token' = NoToken
    /\ signing_key' = NoKey
    /\ payload' = NoClaims
    /\ clock_read' = Absent
    /\ outcome' = Pending
    /\ steps' = <<>>
    /\ UNCHANGED <<last, peer, listVars, deleteVars, authVars>>
    /\ UNCHANGED <<app_project_id, service, jwks, now>>

\* time passes
Tick ==
    /\ now < MaxNow
    /\ now' = now + 1
    /\ UNCHANGED <<last, peer, listVars, deleteVars, authVars>>
    /\ UNCHANGED <<app_project_id, service, jwks, pc, token, signing_key,
                   payload, clock_read, outcome, steps>>

\* the key set is rotated: kid-1 now names the other key
RotateKeys ==
    /\ jwks' = [jwks EXCEPT !["kid-1"] =
                   IF jwks["kid-1"] = "key-A" THEN "key-B" ELSE "key-A"]
    /\ UNCHANGED <<last, peer, listVars, deleteVars, authVars>>
    /\ UNCHANGED <<app_project_id, service, now, pc, token, signing_key,
                   payload, clock_read, outcome, steps>>

Next ==
    \/ \E tok \in Tokens : Call(tok)
    \/ GetAppCheckService
    \/ CheckToken
    \/ GetSigningKey
    \/ CheckHeaders
    \/ Decode
    \/ SetAppId
    \/ Finish
    \/ Tick
    \/ RotateKeys

Spec == Init /\ [][Next]_vars

----------------------------------------------------------------------------
(* The same token verified again: the caller keeps the claims of an accepted
   call and calls verify_token once more with the token it used *)

CallFirst(tok) == ~last.set /\ Call(tok)

CallAgain == last.set /\ Call(last.token)

\* the first call was accepted: the caller keeps its token, claims and key
FinishRemember ==
    /\ pc = "done"
    /\ outcome.kind = "ok"
    /\ ~last.set
    /\ last' = [set |-> TRUE, token |-> token, claims |-> outcome.claims,
                key |-> signing_key]
    /\ pc' = "idle"
    /\ token' = NoToken
    /\ signing_key' = NoKey
    /\ payload' = NoClaims
    /\ clock_read' = Absent
    /\ outcome' = Pending
    /\ steps' = <<>>
    /\ UNCHANGED <<app_project_id, service, jwks, now, peer, listVars,
                   deleteVars, authVars>>

\* a rejected call, or the second call: nothing is kept
FinishForget ==
    /\ pc = "done"
    /\ outcome.kind # "ok" \/ last.set
    /\ last' = NoLast
    /\ pc' = "idle"
    /\ token' = NoToken
    /\ signing_key' = NoKey
    /\ payload' = NoClaims
    /\ clock_read' = Absent
    /\ outcome' = Pending
    /\ steps' = <<>>
    /\ UNCHANGED <<app_project_id, service, jwks, now, peer, listVars,
                   deleteVars, authVars>>

NextRepeat ==
    \/ \E tok \in Tokens : CallFirst(tok)
    \/ CallAgain
    \/ GetAppCheckService
    \/ CheckToken
    \/ GetSigningKey
    \/ CheckHeaders
    \/ Decode
    \/ SetAppId
    \/ FinishRemember
    \/ FinishForget
    \/ Tick
    \/ RotateKeys

SpecRepeat == Init /\ [][NextRepeat]_vars

----------------------------------------------------------------------------
(* Two calls at once: a second thread runs verify_token on the same service
   while the first call is in progress *)

\* the tokens the two threads verify
ConcTokens ==
    {tok \in Tokens :
        \/ tok.form # "jwt"
        \/ Deviations(tok) = 0
        \/ /\ Deviations(tok) = 1 /\ tok.exp = Absent
           /\ \/ tok.sub = Str(<<>>)
              \/ tok.aud = List(<<ProjectX>>)
              \/ tok.iss = Absent
              \/ tok.typ = Absent
              \/ tok.kid = "kid-2"}

\* one step of verify_token on the locals c of a call: the locals and the
\* service after it
StepCall(c, svc, project_id, keyset, clock, fetchOk) ==
    LET ran == [c EXCEPT !.steps = Append(c.steps, c.pc)]
        failed(exc) == [ran EXCEPT !.outcome = exc, !.pc = "done"]
        got == GetSigningKeyFromJwt(c.token, keyset, fetchOk)
        headers == HasValidTokenHeaders(Header(c.token))
        res == DecodeAndVerify(c.token, c.signing_key, svc, clock)
    IN  CASE c.pc = "get_service" ->
               IF svc.state = "ready"
               THEN [call |-> [ran EXCEPT !.pc = "check_string"],
                     service |-> svc]
               ELSE IF ~Truthy(project_id)
               THEN [call |-> failed(Raise("ValueError",
                                           "A project ID must be specified")),
                     service |-> svc]
               ELSE [call |-> [ran EXCEPT !.pc = "check_string"],
                     service |-> NewService(project_id)]
          [] c.pc = "check_string" ->
               [call |-> IF CheckString(c.token) # ""
                         THEN failed(Raise("ValueError", CheckString(c.token)))
                         ELSE [ran EXCEPT !.pc = "get_signing_key"],
                service |-> svc]
          [] c.pc = "get_signing_key" ->
               [call |-> IF got.exc # "none"
                         THEN failed(Propagate(Raise(got.exc, "signing key")))
                         ELSE [ran EXCEPT !.signing_key = got.key,
                                          !.pc = "headers"],
                service |-> svc]
          [] c.pc = "headers" ->
               [call |-> IF headers # ""
                         THEN failed(Propagate(Raise("ValueError", headers)))
                         ELSE [ran EXCEPT !.pc = "decode"],
                service |-> svc]
          [] c.pc = "decode" ->
               [call |-> IF res.kind # "ok"
                         THEN [failed(Propagate(res))
                                  EXCEPT !.clock_read = Num(clock)]
                         ELSE [ran EXCEPT !.payload = res.claims,
                                          !.clock_read = Num(clock),
                                          !.pc = "app_id"],
                service |-> svc]
          [] c.pc = "app_id" ->
               [call |-> [ran EXCEPT !.payload = WithAppId(c.payload),
                                     !.outcome = Return(WithAppId(c.payload)),
                                     !.pc = "done"],
                service |-> svc]

\* verify_token(token, app) is called on the second thread
PeerCall(tok) ==
    /\ peer.pc = "idle"
    /\ peer' = [peer EXCEPT !.token = tok, !.pc = "get_service"]
    /\ UNCHANGED <<app_project_id, service, jwks, now, pc, token, signing_key,
                   payload, clock_read, outcome, steps, last, listVars,
                   deleteVars, authVars>>

\* the second thread's call takes its next step
PeerStep ==
    /\ peer.pc \notin {"idle", "done"}
    /\ \E fetchOk \in BOOLEAN :
         LET next == StepCall(peer, service, app_project_id, jwks, now, fetchOk)
         IN  /\ peer' = next.call
             /\ service' = next.service
    /\ UNCHANGED <<app_project_id, jwks, now, pc, token, signing_key,
                   payload, clock_read, outcome, steps, last, listVars,
                   deleteVars, authVars>>

\* each thread makes one call and keeps its result
NextConc ==
    \/ \E tok \in ConcTokens : Call(tok)
    \/ GetAppCheckService
    \/ CheckToken
    \/ GetSigningKey
    \/ CheckHeaders
    \/ Decode
    \/ SetAppId
    \/ \E tok \in ConcTokens : PeerCall(tok)
    \/ PeerStep
    \/ Tick
    \/ RotateKeys

SpecConc == Init /\ [][NextConc]_vars

----------------------------------------------------------------------------
(* A listing followed page by page: the caller asks for a first page and
   then calls get_next_page on the page it holds *)

\* ListUsersPage(download, page_token, max_results) and its like for
\* provider configs: the first page of a listing
ListPage(kind, page_token, max_results, reply) ==
    /\ listing.state = "idle"
    /\ LET got == Download(kind, page_token, max_results, reply)
       IN  /\ downloads' =
                  Append(downloads, DownloadCall(page_token, max_results, got))
           /\ IF got.exc = "none"
              THEN /\ chain' = <<NewPage(kind, max_results, got.body)>>
                   /\ listing' =
                          [state |-> "open", exc |-> "none", kind |-> kind]
              ELSE /\ chain' = chain
                   /\ listing' =
                          [state |-> "raised", exc |-> got.exc,
                           kind |-> kind]
    /\ UNCHANGED <<appCheckVars, deleteVars, authVars>>

\* page.get_next_page() on the current page
GetNextPage(reply) ==
    /\ listing.state = "open"
    /\ LET page == chain[Len(chain)]
           next == NextPageToken(page)
           got == Download(page.download, next, page.max_results, reply)
       IN  IF HasNextPage(page)
           THEN /\ Len(downloads) < MaxDownloads
                /\ downloads' =
                       Append(downloads,
                              DownloadCall(next, page.max_results, got))
                /\ IF got.exc = "none"
                   THEN /\ chain' =
                              Append(chain,
                                     NewPage(page.download, page.max_results,
                                             got.body))
                        /\ listing' = listing
                   ELSE /\ chain' = chain
                        /\ listing' =
                               [listing EXCEPT !.state = "raised",
                                               !.exc = got.exc]
           ELSE /\ listing' = [listing EXCEPT !.state = "end"]
                /\ UNCHANGED <<chain, downloads>>
    /\ UNCHANGED <<appCheckVars, deleteVars, authVars>>

NextPages ==
    \/ \E kind \in Listings, page_token \in PageTokens,
          max_results \in MaxResults, reply \in ListReplies :
           ListPage(kind, page_token, max_results, reply)
    \/ \E reply \in ListReplies : GetNextPage(reply)

SpecPages == Init /\ [][NextPages]_vars

----------------------------------------------------------------------------
(* Users deleted in a batch, and the result built from the response *)

\* user_manager.delete_users(uids, force_delete)
CallDeleteUsers(uids, force_delete, reply) ==
    /\ deletion.state = "idle"
    /\ LET call == DeleteUsers(uids, force_delete, reply)
       IN  /\ deletion' =
                  [state |-> call.state, exc |-> call.exc, uids |-> uids,
                   force_delete |-> force_delete, reply |-> reply,
                   response |-> call.response]
           /\ delete_requests' = delete_requests \o call.requests
    /\ UNCHANGED delete_result
    /\ UNCHANGED <<appCheckVars, listVars, authVars>>

\* DeleteUsersResult(result, total), result the response delete_users gave
BuildDeleteUsersResult(total) ==
    /\ deletion.state = "returned"
    /\ ~delete_result.built
    /\ delete_result' = DeleteUsersResult(deletion.response, total)
    /\ UNCHANGED <<deletion, delete_requests>>
    /\ UNCHANGED <<appCheckVars, listVars, authVars>>

NextDelete ==
    \/ \E uids \in UidLists, force_delete \in BOOLEAN,
          reply \in DeleteReplies :
           CallDeleteUsers(uids, force_delete, reply)
    \/ \E total \in 0..MaxTotal : BuildDeleteUsersResult(total)
    \/ BuildDeleteUsersResult(UidsLen(deletion.uids))

SpecDelete == Init /\ [][NextDelete]_vars

----------------------------------------------------------------------------
(* Users looked up in a batch *)

\* user_manager.get_users(identifiers)
CallGetUsers(identifiers, reply) ==
    /\ lookup.state = "idle"
    /\ LET call == GetUsers(identifiers, reply)
       IN  /\ lookup' =
                  [state |-> call.state, exc |-> call.exc,
                   identifiers |-> identifiers, users |-> call.users]
           /\ lookup_requests' = lookup_requests \o call.requests
    /\ UNCHANGED <<appCheckVars, listVars, deleteVars>>
    /\ UNCHANGED <<errorVars, recordVars, providerVars>>

\* the caller drops the result and is ready for another call
ForgetUsers ==
    /\ lookup.state # "idle"
    /\ lookup' = NoLookup
    /\ lookup_requests' = <<>>
    /\ UNCHANGED <<appCheckVars, listVars, deleteVars>>
    /\ UNCHANGED <<errorVars, recordVars, providerVars>>

NextLookup ==
    \/ \E identifiers \in IdentifierLists, reply \in LookupReplies :
           CallGetUsers(identifiers, reply)
    \/ ForgetUsers

SpecLookup == Init /\ [][NextLookup]_vars

----------------------------------------------------------------------------
(* An error of googleapiclient is handled *)

\* handle_googleapiclient_error(error, message, code, http_response)
HandleError(error, message, code, http_response) ==
    /\ handled.state = "idle"
    /\ handled' =
           [state |-> "handled", error |-> error, message |-> message,
            code |-> code, http_response |-> http_response,
            result |-> HandleGoogleapiclientError(error, message, code,
                                                  http_response)]
    /\ UNCHANGED <<appCheckVars, listVars, deleteVars>>
    /\ UNCHANGED <<lookupVars, recordVars, providerVars>>

\* handle_platform_error_from_googleapiclient(error, handle_func)
HandlePlatform(error, status, exc) ==
    /\ handled.state = "idle"
    /\ handled' =
           [state |-> "platform", error |-> error,
            message |-> PlatformMessage(error), code |-> Get(status),
            http_response |-> HttpResponseFromError(error),
            result |-> HandlePlatformError(error, status, exc)]
    /\ UNCHANGED <<appCheckVars, listVars, deleteVars>>
    /\ UNCHANGED <<lookupVars, recordVars, providerVars>>

NextErrors ==
    \/ \E error \in Errors, message \in Messages, code \in Codes,
          http_response \in HttpResponses :
           HandleError(error, message, code, http_response)
    \/ \E error \in Errors, status \in ErrorDictStatuses,
          exc \in HandleFuncResults :
           HandlePlatform(error, status, exc)

SpecErrors == Init /\ [][NextErrors]_vars

----------------------------------------------------------------------------
(* An exported user record is built from the server's data and read *)

\* ExportedUserRecord(data)
NewExportedUserRecord(data) ==
    /\ exported.state = "idle"
    /\ exported' =
           IF UserRecordError(data) # "none"
           THEN [exported EXCEPT !.state = "raised"]
           ELSE [exported EXCEPT !.state = "built", !.data = data]
    /\ UNCHANGED <<appCheckVars, listVars, deleteVars>>
    /\ UNCHANGED <<lookupVars, errorVars, providerVars>>

\* record.password_hash
ReadPasswordHash ==
    /\ exported.state = "built"
    /\ exported.password_hash = Unread
    /\ exported' =
           [exported EXCEPT !.password_hash = PasswordHash(exported.data)]
    /\ UNCHANGED <<appCheckVars, listVars, deleteVars>>
    /\ UNCHANGED <<lookupVars, errorVars, providerVars>>

\* record.password_salt
ReadPasswordSalt ==
    /\ exported.state = "built"
    /\ exported.password_salt = Unread
    /\ exported' =
           [exported EXCEPT !.password_salt = PasswordSalt(exported.data)]
    /\ UNCHANGED <<appCheckVars, listVars, deleteVars>>
    /\ UNCHANGED <<lookupVars, errorVars, providerVars>>

NextRecords ==
    \/ \E data \in UserData : NewExportedUserRecord(data)
    \/ ReadPasswordHash
    \/ ReadPasswordSalt

SpecRecords == Init /\ [][NextRecords]_vars

----------------------------------------------------------------------------
(* A provider config is created or updated *)

\* the call made and how it ended
ProviderCalled(operation, args, call) ==
    /\ provider.state = "idle"
    /\ provider' =
           [state |-> call.state, operation |-> operation, args |-> args,
            exc |-> call.exc, msg |-> call.msg]
    /\ provider_requests' = provider_requests \o call.requests
    /\ UNCHANGED <<appCheckVars, listVars, deleteVars>>
    /\ UNCHANGED <<lookupVars, errorVars, recordVars>>

\* client.create_oidc_provider_config(...)
CallCreateOidc(args, ok) ==
    ProviderCalled("create_oidc_provider_config", args,
                   CreateOidcProviderConfig(args, ok))

\* client.update_oidc_provider_config(...)
CallUpdateOidc(args, ok) ==
    ProviderCalled("update_oidc_provider_config", args,
                   UpdateOidcProviderConfig(args, ok))

\* client.update_saml_provider_config(...)
CallUpdateSaml(args, ok) ==
    ProviderCalled("update_saml_provider_config", args,
                   UpdateSamlProviderConfig(args, ok))

NextProviders ==
    \/ \E args \in OidcArguments, ok \in BOOLEAN : CallCreateOidc(args, ok)
    \/ \E args \in OidcArguments, ok \in BOOLEAN : CallUpdateOidc(args, ok)
    \/ \E args \in SamlArguments, ok \in BOOLEAN : CallUpdateSaml(args, ok)

SpecProviders == Init /\ [][NextProviders]_vars

----------------------------------------------------------------------------
(* What the claims speak of *)

Done == pc = "done"
Accepted == Done /\ outcome.kind = "ok"
Rejected == Done /\ outcome.kind # "ok"
Ran(step) == \E i \in 1..Len(steps) : steps[i] = step

IsJwt == token.form = "jwt"
\* the audience expected of tokens for the service's project
ExpectedAudience == <<"projects/">> \o service.project_id
KeyResolved == signing_key # NoKey
CorrectlySigned == KeyResolved /\ token.sig = signing_key
\* the time of verification: the clock jwt.decode read, when it ran
VerificationTime == IF clock_read.t = "int" THEN clock_read.v[1] ELSE now
Unexpired == token.exp.t = "int" => token.exp.v[1] > VerificationTime
TypIsJwt == token.typ = Str(<<"JWT">>)
AlgIsRs256 == token.alg = Str(<<"RS256">>)
AudListsExpected ==
    token.aud.t = "list" /\ InList(ExpectedAudience, token.aud.v)
IssPrefixed ==
    /\ token.iss.t = "str"
    /\ Len(token.iss.v) >= Len(APP_CHECK_ISSUER)
    /\ SubSeq(token.iss.v, 1, Len(APP_CHECK_ISSUER)) = APP_CHECK_ISSUER
SubNonEmpty == token.sub.t = "str" /\ token.sub.v # <<>>
EverythingButSub ==
    /\ IsJwt /\ CorrectlySigned /\ TypIsJwt /\ AlgIsRs256 /\ Unexpired
    /\ AudListsExpected /\ IssPrefixed

----------------------------------------------------------------------------
(* C1 *)

\* C1: claims are returned only for a token that passed every check: a
\* non-empty string, its key resolved, typ JWT, alg RS256, a valid
\* signature, not expired, aud a list with the expected audience, iss with
\* the issuer prefix, sub a non-empty string.
C1_ClaimsOnlyAfterEveryCheck ==
    Accepted => EverythingButSub /\ SubNonEmpty

----------------------------------------------------------------------------
(* C2 *)

----------------------------------------------------------------------------
(* C3 *)

\* C3: a token whose sub is missing or the empty string is rejected.
C3_MissingOrEmptySubRejected ==
    (Done /\ IsJwt /\ (token.sub = Absent \/ token.sub = Str(<<>>)))
        => Rejected

----------------------------------------------------------------------------
(* C4 *)

KeyResolutionFailed ==
    Done /\ IsJwt /\ Ran("get_signing_key") /\ ~KeyResolved

\* C4 as claimed: a token whose key the key client cannot resolve fails with
\* the error kind of every other verification failure, ValueError.
C4_UnresolvedKeyIsValueError ==
    KeyResolutionFailed => outcome.kind = "ValueError"

\* C4 as amended: a token whose key the key client cannot resolve fails with
\* the key client's PyJWKClientError, which verify_token lets through.
C4_UnresolvedKeyIsPyJWKClientError ==
    KeyResolutionFailed => "PyJWKClientError" \in Bases(outcome.kind)

C4_Witness ==
    /\ KeyResolutionFailed
    /\ token.kid = "kid-2"
    /\ outcome.kind = "PyJWKClientError"

----------------------------------------------------------------------------
(* C5 *)

\* C5: a correctly signed, unexpired token whose iss is absent or does not
\* begin with the issuer base URL fails, and fails with ValueError.
C5_WrongIssuerIsValueError ==
    (/\ Done /\ IsJwt /\ CorrectlySigned /\ Unexpired
     /\ token.iss.t \in {"absent", "str"}
     /\ ~IssPrefixed)
        => outcome.kind = "ValueError"

----------------------------------------------------------------------------
(* C6 *)

\* the scenario's token, with the given aud, verified for project proj-x
Scenario(aud) ==
    /\ Done
    /\ service.project_id = ProjectX
    /\ IsJwt /\ TypIsJwt /\ AlgIsRs256 /\ CorrectlySigned
    /\ token.aud = aud
    /\ token.iss = Str(APP_CHECK_ISSUER \o ProjectX)
    /\ token.sub = Str(<<"1:1234:android:abcd">>)
    /\ token.exp.t = "int" /\ token.exp.v[1] > VerificationTime

ScenarioAccepted ==
    /\ Accepted
    /\ outcome.claims.app_id = Str(<<"1:1234:android:abcd">>)

\* C6 as claimed: for project 'proj-x' the scenario's token with
\* aud = ['proj-x'] is accepted with app_id '1:1234:android:abcd'.
C6_ScenarioBareAudience ==
    Scenario(List(<<ProjectX>>)) => ScenarioAccepted

\* C6 as amended: for project 'proj-x' the scenario's token with
\* aud = ['projects/proj-x'] is accepted with app_id '1:1234:android:abcd'.
C6_ScenarioScopedAudience ==
    Scenario(List(<<ProjectXAudience>>)) => ScenarioAccepted

C6_Witness ==
    Scenario(List(<<ProjectXAudience>>)) /\ ScenarioAccepted

----------------------------------------------------------------------------
(* C7 *)

\* C7: a token whose alg header is not RS256 (HS256, none, missing) is
\* rejected, whatever else holds of it; it is rejected by the header check,
\* before its signature is looked at.
C7_WrongAlgRejected ==
    (Done /\ IsJwt /\ ~AlgIsRs256) => Rejected /\ ~Ran("decode")

C7_Witness ==
    /\ Rejected
    /\ IsJwt /\ CorrectlySigned /\ TypIsJwt /\ Unexpired
    /\ AudListsExpected /\ IssPrefixed /\ SubNonEmpty
    /\ token.alg = Str(<<"HS256">>)
    /\ outcome = Raise("ValueError", "incorrect alg header")

----------------------------------------------------------------------------
(* C8 *)

\* C8: a token whose typ header is not JWT (or is missing) is rejected,
\* whatever else holds of it.
C8_WrongTypRejected ==
    (Done /\ IsJwt /\ ~TypIsJwt) => Rejected

C8_Witness ==
    /\ Rejected
    /\ IsJwt /\ CorrectlySigned /\ AlgIsRs256 /\ Unexpired
    /\ AudListsExpected /\ IssPrefixed /\ SubNonEmpty
    /\ token.typ = Absent
    /\ outcome = Raise("ValueError", "incorrect type header")

----------------------------------------------------------------------------
(* C9 *)

\* C9: a token whose aud is a string, not a list, is rejected, also when the
\* string is the expected audience and the decode accepted it.
C9_ScalarAudienceRejected ==
    (Done /\ IsJwt /\ token.aud.t = "str") => Rejected

\* the string is the expected audience, the decode passed, the check of the
\* list shape rejected
C9_Witness ==
    /\ Rejected
    /\ IsJwt /\ CorrectlySigned /\ TypIsJwt /\ AlgIsRs256 /\ Unexpired
    /\ IssPrefixed /\ SubNonEmpty
    /\ token.aud = Str(ExpectedAudience)
    /\ Ran("decode")
    /\ outcome = Raise("ValueError", "incorrect aud claim")

----------------------------------------------------------------------------
(* C10 *)

\* C10: a token whose aud is a list without the expected audience (the
\* empty list too) is rejected.
C10_AudienceNotListedRejected ==
    (Done /\ IsJwt /\ token.aud.t = "list"
          /\ ~InList(ExpectedAudience, token.aud.v))
        => Rejected

C10_Witness ==
    /\ Rejected
    /\ IsJwt /\ CorrectlySigned /\ TypIsJwt /\ AlgIsRs256 /\ Unexpired
    /\ IssPrefixed /\ SubNonEmpty
    /\ token.aud = List(<<ProjectX>>)
    /\ Ran("decode")
    /\ outcome = Raise("ValueError", "incorrect aud claim (decode)")

----------------------------------------------------------------------------
(* C11 *)

\* C11: a token whose exp is in the past at the time of verification is
\* rejected, whatever else holds of it.
C11_ExpiredRejected ==
    (Done /\ IsJwt /\ token.exp.t = "int"
          /\ token.exp.v[1] < VerificationTime)
        => Rejected

\* only exp is wrong: the decode ran and reported the expiry
C11_Witness ==
    /\ Rejected
    /\ IsJwt /\ CorrectlySigned /\ TypIsJwt /\ AlgIsRs256
    /\ AudListsExpected /\ IssPrefixed /\ SubNonEmpty
    /\ clock_read.t = "int"
    /\ token.exp.t = "int" /\ token.exp.v[1] < clock_read.v[1]
    /\ outcome = Raise("ValueError", "token has expired")

----------------------------------------------------------------------------
(* C12 *)

\* C12: a token argument that is not a non-empty string (None, not a
\* string, the empty string) is rejected at the precondition, before the key
\* client is asked for a key.
C12_NotANonEmptyStringRejectedAtOnce ==
    (Done /\ (token.t # "str" \/ token.form = "empty"))
        => Rejected /\ ~Ran("get_signing_key")

----------------------------------------------------------------------------
(* C13 *)

\* C13: every successful result holds the keys sub, aud, iss and app_id.
C13_ResultHasKeys ==
    Accepted =>
        /\ outcome.claims.sub.t # "absent"
        /\ outcome.claims.aud.t # "absent"
        /\ outcome.claims.iss.t # "absent"
        /\ outcome.claims.app_id.t # "absent"

\* a result with just these keys: the token carried no exp
C13_Witness ==
    /\ Accepted
    /\ outcome.claims.exp.t = "absent"
    /\ outcome.claims.sub.t = "str"
    /\ outcome.claims.aud.t = "list"
    /\ outcome.claims.iss.t = "str"
    /\ outcome.claims.app_id.t = "str"

----------------------------------------------------------------------------
(* C14 *)

\* the decode step ran and raised: a bad signature, an expired token, or an
\* aud that is missing, empty or without the expected audience
DecodeRaised ==
    /\ Done /\ Ran("decode")
    /\ \/ token.sig # signing_key
       \/ token.exp.t = "int" /\ token.exp.v[1] <= clock_read.v[1]
       \/ token.aud.t \notin {"str", "list"}
       \/ token.aud.v = <<>>
       \/ token.aud.t = "str" /\ token.aud.v # ExpectedAudience
       \/ token.aud.t = "list" /\ ~InList(ExpectedAudience, token.aud.v)

\* the messages _decode_and_verify gives the failures of the decode
DecodeMessages ==
    {"invalid signature", "incorrect aud claim (decode)",
     "incorrect iss claim (decode)", "token has expired",
     "Decoding App Check token failed"}

\* C14: every failure raised by the decode step reaches the caller as a
\* ValueError, with the message _decode_and_verify gives it; no exception of
\* the decode library leaves verify_token.
C14_DecodeFailuresAreValueErrors ==
    DecodeRaised =>
        outcome.kind = "ValueError" /\ outcome.msg \in DecodeMessages

\* the catch-all clause: an aud-less token raises MissingRequiredClaimError
C14_Witness ==
    /\ DecodeRaised
    /\ token.aud = Absent
    /\ outcome = Raise("ValueError", "Decoding App Check token failed")

----------------------------------------------------------------------------
(* C15 *)

\* C15: with the App's project_id missing or empty, building the verifier
\* raises ValueError and no verifier exists; the call ends there, before the
\* token is looked at and before any key is fetched.
C15_NoProjectIdNoVerifier ==
    /\ ~(app_project_id.t = "str" /\ app_project_id.v # <<>>)
          => service.state = "none"
    /\ (Done /\ ~(app_project_id.t = "str" /\ app_project_id.v # <<>>))
          => /\ outcome = Raise("ValueError", "A project ID must be specified")
             /\ steps = <<"get_service">>

\* the empty project id, and a token that would have been accepted
C15_Witness ==
    /\ Done
    /\ app_project_id = Str(<<>>)
    /\ service.state = "none"
    /\ outcome.kind = "ValueError"
    /\ IsJwt /\ Deviations(token) = 0

----------------------------------------------------------------------------
(* C16 *)

\* C16: verify_token called again with a token it accepted, the token still
\* valid and its key resolved to the same key, accepts it again with claims
\* equal to those of the first call.
C16_SecondCallSameClaims ==
    (Done /\ last.set /\ signing_key = last.key /\ Unexpired)
        => Accepted /\ token = last.token /\ outcome.claims = last.claims

C16_Witness ==
    /\ Accepted
    /\ last.set
    /\ token = last.token
    /\ signing_key = last.key
    /\ outcome.claims = last.claims
    /\ outcome.claims.app_id = Str(<<"1:1234:android:abcd">>)

----------------------------------------------------------------------------
(* C17 *)

RECURSIVE RunAlone(_, _, _, _, _, _)
\* a call run to its end with nothing else happening: the service is its
\* own, the key set and the clock stay as they are
RunAlone(c, svc, project_id, keyset, clock, fetchOk) ==
    IF c.pc = "done" THEN c.outcome
    ELSE LET next == StepCall(c, svc, project_id, keyset, clock, fetchOk)
         IN  RunAlone(next.call, next.service, project_id, keyset, clock,
                      fetchOk)

\* the outcomes of verify_token(tok) run alone, its key resolved to key
\* (NoKey: not resolved) and the decode reading clock
AloneOutcomes(tok, key, clock) ==
    {RunAlone([IdleCall EXCEPT !.token = tok, !.pc = "get_service"],
              NoService, app_project_id, [k \in Kids |-> key], clock, fetchOk) :
        fetchOk \in IF key = NoKey THEN BOOLEAN ELSE {TRUE}}

ClockOf(read) == IF read.t = "int" THEN read.v[1] ELSE now

\* C17: two verify_token calls on one service, interleaved in any way, each
\* end as the call would have ended alone with the same key and clock; the
\* service they share stays as __init__ built it.
C17_ConcurrentCallsIndependent ==
    /\ service.state = "ready" => service = NewService(app_project_id)
    /\ Done =>
         outcome \in AloneOutcomes(token, signing_key, ClockOf(clock_read))
    /\ peer.pc = "done" =>
         peer.outcome \in AloneOutcomes(peer.token, peer.signing_key,
                                        ClockOf(peer.clock_read))

\* both calls ended, one accepted and one rejected for its audience
C17_Witness ==
    /\ Accepted
    /\ peer.pc = "done"
    /\ peer.token.aud = List(<<ProjectX>>)
    /\ peer.outcome = Raise("ValueError", "incorrect aud claim (decode)")
    /\ service = NewService(app_project_id)

----------------------------------------------------------------------------
(* C18 *)

\* the response of a page carries a non-empty nextPageToken
CarriesToken(page) ==
    /\ page.current.nextPageToken.t = "str"
    /\ page.current.nextPageToken.v # <<>>

\* C18: has_next_page of a page is true exactly when its response carries a
\* non-empty nextPageToken; get_next_page returns None only on a page
\* without one, and then no download was made for it; every download after
\* the first was made for a page that has a next page, with that page's
\* token and the max_results of the first call, one download for each page;
\* so the tokens requested are those the server returned, in order.
C18_PagesFollowTokens ==
    /\ \A i \in 1..Len(chain) : HasNextPage(chain[i]) <=> CarriesToken(chain[i])
    /\ listing.state = "end" =>
           /\ ~CarriesToken(chain[Len(chain)])
           /\ Len(downloads) = Len(chain)
    /\ listing.state = "open" => Len(downloads) = Len(chain)
    /\ listing.state = "raised" => Len(downloads) = Len(chain) + 1
    /\ \A i \in 2..Len(downloads) :
           /\ CarriesToken(chain[i - 1])
           /\ downloads[i].page_token = chain[i - 1].current.nextPageToken
           /\ downloads[i].max_results = downloads[1].max_results
           /\ downloads[i].max_results = chain[1].max_results

\* three pages were followed to the one whose token is empty
C18_Witness ==
    /\ listing.state = "end"
    /\ Len(chain) = MaxDownloads
    /\ chain[1].current.nextPageToken = Str(<<"t1">>)
    /\ chain[2].current.nextPageToken = Str(<<"t2">>)
    /\ chain[Len(chain)].current.nextPageToken = Str(<<>>)
    /\ downloads[2].page_token = Str(<<"t1">>)

----------------------------------------------------------------------------
(* C19 *)

\* the uids of the call made are all valid
AllUidsValid ==
    \A i \in 1..Len(deletion.uids.head) : ValidateUid(deletion.uids.head[i])

\* the call made has uids to send: some, no more than 1000, all valid
Sendable ==
    /\ deletion.state # "idle"
    /\ UidsLen(deletion.uids) \in 1..MAX_DELETE_UIDS
    /\ AllUidsValid

\* the one request sent carries all the uids and the force flag
OneRequestSent ==
    /\ Len(delete_requests) = 1
    /\ delete_requests[1].method = "post"
    /\ delete_requests[1].path = "/accounts:batchDelete"
    /\ delete_requests[1].json.localIds = deletion.uids
    /\ delete_requests[1].json.force = deletion.force_delete

\* the errors the server's response lists
ListedErrors ==
    IF deletion.reply.errors.t = "list" THEN deletion.reply.errors.v ELSE <<>>

\* the call returned the errors the server's response lists
ReturnedListedErrors ==
    /\ deletion.state = "returned"
    /\ Len(deletion.response.errors) = Len(ListedErrors)
    /\ \A i \in 1..Len(ListedErrors) :
           /\ deletion.response.errors[i].index = ListedErrors[i].index
           /\ deletion.response.errors[i].reason = ListedErrors[i].message

\* no uids: no errors and no request; too many uids or an invalid one:
\* ValueError and no request
C19_Unsendable ==
    /\ deletion.state # "idle" /\ UidsLen(deletion.uids) = 0 =>
           /\ deletion.state = "returned"
           /\ deletion.response.errors = <<>>
           /\ delete_requests = <<>>
    /\ /\ deletion.state # "idle"
       /\ \/ UidsLen(deletion.uids) > MAX_DELETE_UIDS
          \/ ~AllUidsValid
       => /\ deletion.state = "raised"
          /\ deletion.exc = "ValueError"
          /\ delete_requests = <<>>

\* C19 as stated: ..., otherwise delete_users sends one batchDelete request
\* carrying all the uids and the force flag and returns the errors listed
\* in the response.
C19_SendsAndReturnsErrors ==
    /\ C19_Unsendable
    /\ Sendable => OneRequestSent /\ ReturnedListedErrors

\* C19: delete_users with no uids returns a response with no errors and
\* sends no request; with more than 1000 uids or an invalid uid it raises
\* ValueError and sends no request; otherwise it sends one batchDelete
\* request carrying all the uids and the force flag, and returns the errors
\* listed in the response if the request succeeds with a dict for a body,
\* raises the backend's error if the request fails, and raises
\* UnexpectedResponseError if the body is not a dict.
C19_SendsAndReturnsErrorsOfDict ==
    /\ C19_Unsendable
    /\ Sendable =>
           /\ OneRequestSent
           /\ deletion.reply.ok /\ deletion.reply.dict => ReturnedListedErrors
           /\ ~deletion.reply.ok =>
                  deletion.state = "raised" /\ deletion.exc = "FirebaseError"
           /\ deletion.reply.ok /\ ~deletion.reply.dict =>
                  /\ deletion.state = "raised"
                  /\ deletion.exc = "UnexpectedResponseError"

\* 1000 uids were sent with force_delete and two errors came back
C19_Witness ==
    /\ Sendable
    /\ UidsLen(deletion.uids) = MAX_DELETE_UIDS
    /\ deletion.force_delete
    /\ OneRequestSent
    /\ deletion.state = "returned"
    /\ Len(deletion.response.errors) = MaxErrors

----------------------------------------------------------------------------
(* C20 *)

\* C20: a DeleteUsersResult built from a response and a total has
\* failure_count equal to the length of errors, and success_count and
\* failure_count add up to the total.
C20_CountsAddUp ==
    delete_result.built =>
        /\ delete_result.errors = deletion.response.errors
        /\ delete_result.failure_count = Len(delete_result.errors)
        /\ delete_result.success_count + delete_result.failure_count
               = delete_result.total

\* a result was built from a response with errors
C20_Witness ==
    /\ delete_result.built
    /\ delete_result.total = MaxTotal
    /\ Len(delete_result.errors) = MaxErrors
    /\ delete_result.failure_count = MaxErrors
    /\ delete_result.success_count = MaxTotal - MaxErrors

----------------------------------------------------------------------------
(* C21 *)

\* the identifiers of the call made that are of class c, in order
OfClass(c) == SelectSeq(lookup.identifiers, LAMBDA id : id.class = c)

\* the identifiers of the call made are all of a supported type
AllSupported ==
    \A i \in 1..Len(lookup.identifiers) :
        lookup.identifiers[i].class \in IdentifierClasses

\* one lookup request was sent and every identifier is under the field of
\* its kind, and under no other
OneLookupSent ==
    /\ Len(lookup_requests) = 1
    /\ lookup_requests[1].method = "post"
    /\ lookup_requests[1].path = "/accounts:lookup"
    /\ LET json == lookup_requests[1].json
           uids == OfClass("UidIdentifier")
           emails == OfClass("EmailIdentifier")
           phones == OfClass("PhoneIdentifier")
           providers == OfClass("ProviderIdentifier")
       IN  /\ json.localId = [i \in 1..Len(uids) |-> uids[i].v[1]]
           /\ json.email = [i \in 1..Len(emails) |-> emails[i].v[1]]
           /\ json.phoneNumber = [i \in 1..Len(phones) |-> phones[i].v[1]]
           /\ json.federatedUserId =
                  [i \in 1..Len(providers) |->
                      [providerId |-> providers[i].v[1],
                       rawId |-> providers[i].v[2]]]

\* C21: get_users with no identifiers returns an empty list and sends no
\* request; with more than 100 identifiers, or with an identifier of an
\* unsupported type, it raises ValueError and sends no request; otherwise
\* it sends one lookup request in which every identifier appears under the
\* field of its kind.
C21_LookupByKind ==
    lookup.state # "idle" =>
        /\ Len(lookup.identifiers) = 0 =>
               /\ lookup.state = "returned"
               /\ lookup.users = <<>>
               /\ lookup_requests = <<>>
        /\ \/ Len(lookup.identifiers) > MAX_GET_USERS
           \/ ~AllSupported
           => /\ lookup.state = "raised"
              /\ lookup.exc = "ValueError"
              /\ lookup_requests = <<>>
        /\ /\ Len(lookup.identifiers) \in 1..MAX_GET_USERS
           /\ AllSupported
           => OneLookupSent

\* a hundred identifiers, the first by provider and the others by uid, were
\* sent
C21_Witness ==
    /\ lookup.state = "returned"
    /\ Len(lookup.identifiers) = MAX_GET_USERS
    /\ lookup.identifiers[1] = ProviderIdentifier("google.com", "g-1")
    /\ OneLookupSent
    /\ Len(lookup_requests[1].json.federatedUserId) = 1
    /\ Len(lookup_requests[1].json.localId) = MAX_GET_USERS - 1

----------------------------------------------------------------------------
(* C22 *)

\* the error handled is a socket timeout, or a socket error whose text
\* contains 'timed out'
IsTimeout ==
    \/ handled.error.class = "socket.timeout"
    \/ /\ handled.error.class \in {"socket.timeout", "socket.error"}
       /\ \E i \in 1..Len(handled.error.text) :
              handled.error.text[i] = "timed out"

IsServerNotFound == handled.error.class = "httplib2.ServerNotFoundError"

IsHttpError == handled.error.class = "googleapiclient.errors.HttpError"

\* a code was supplied
CodeSupplied == handled.code.t = "str" /\ handled.code.v # <<>>

\* C22: handle_googleapiclient_error gives DeadlineExceededError for a
\* socket timeout (or a socket error whose text contains 'timed out'),
\* else UnavailableError for a server-not-found error, else UnknownError for
\* an error that is not an HTTP error, and for an HTTP error the exception
\* type of the code supplied or, when none is, of the code derived from the
\* HTTP status; the error handled is the cause of the result.
C22_FirstMatchingRule ==
    handled.state = "handled" =>
        /\ handled.result.cause = handled.error
        /\ handled.result.type =
               IF IsTimeout THEN "DeadlineExceededError"
               ELSE IF IsServerNotFound THEN "UnavailableError"
               ELSE IF ~IsHttpError THEN "UnknownError"
               ELSE IF CodeSupplied
               THEN ErrorCodeToExceptionType(handled.code)
               ELSE ErrorCodeToExceptionType(
                        HttpStatusToErrorCode(handled.error.status))

\* an HTTP error of status 404 was handled with the code UNAVAILABLE
\* supplied
C22_Witness ==
    /\ handled.state = "handled"
    /\ IsHttpError
    /\ handled.error.status = 404
    /\ handled.code = Str(<<"UNAVAILABLE">>)
    /\ handled.result.type = "UnavailableError"
    /\ handled.result.cause = handled.error

----------------------------------------------------------------------------
(* C23 *)

\* the stored passwordHash is the redacted marker, the base64 encoding of
\* 'REDACTED', as the server sends it (a string) or as bytes
StoredIsRedacted ==
    /\ exported.data.passwordHash.t \in {"str", "bytes"}
    /\ exported.data.passwordHash.v = <<"UkVEQUNURUQ=">>

\* C23: password_hash returns None whenever the stored passwordHash is the
\* redacted marker, and the stored value unchanged otherwise.
C23_RedactedHashIsNone ==
    exported.state = "built" /\ exported.password_hash # Unread =>
        exported.password_hash =
            IF StoredIsRedacted THEN None ELSE Get(exported.data.passwordHash)

----------------------------------------------------------------------------
(* C24 *)

\* the steps of a call, in the order of the code
StepOrder ==
    <<"get_service", "check_string", "get_signing_key", "headers", "decode",
      "app_id">>

\* the step the call ended in
LastStep == steps[Len(steps)]

\* the token is a non-empty string
NonEmptyString == token.t = "str" /\ token.form # "empty"

\* C24: the steps run in the fixed order, each only if the earlier ones
\* passed, and the failure reported is that of the earliest step the token
\* violates: the non-empty-string precondition, the extraction of the
\* header, the resolution of the key, the header check (typ, then alg), the
\* verification of signature and claims.
C24_EarliestFailureWins ==
    /\ \A i \in 1..Len(steps) : steps[i] = StepOrder[i]
    /\ Done /\ Ran("check_string") =>
           /\ ~NonEmptyString =>
                  /\ LastStep = "check_string"
                  /\ outcome.kind = "ValueError"
           /\ NonEmptyString /\ ~IsJwt =>
                  /\ LastStep = "get_signing_key"
                  /\ outcome.kind = "ValueError"
           /\ IsJwt /\ ~KeyResolved =>
                  /\ LastStep = "get_signing_key"
                  /\ outcome.kind \in
                         {"PyJWKClientError", "PyJWKClientConnectionError"}
           /\ IsJwt /\ KeyResolved /\ ~TypIsJwt =>
                  /\ LastStep = "headers"
                  /\ outcome = Raise("ValueError", "incorrect type header")
           /\ IsJwt /\ KeyResolved /\ TypIsJwt /\ ~AlgIsRs256 =>
                  /\ LastStep = "headers"
                  /\ outcome = Raise("ValueError", "incorrect alg header")
           /\ Rejected /\ IsJwt /\ KeyResolved /\ TypIsJwt /\ AlgIsRs256 =>
                  LastStep = "decode"
           /\ Accepted => steps = StepOrder

----------------------------------------------------------------------------
(* C25 *)

\* jwt.decode passed: the token is correctly signed, not expired, and its
\* audience is the expected one or a list of strings holding it
DecodePassed ==
    /\ Done /\ Ran("decode")
    /\ JwtDecode(token, signing_key, {Str(<<"RS256">>)}, ExpectedAudience,
                 VerificationTime) = "none"

RejectedForAudience == outcome = Raise("ValueError", "incorrect aud claim")

\* rejected at the issuer check: ValueError for a string that lacks the
\* prefix, the error of payload['iss'].startswith for no string at all
RejectedForIssuer ==
    /\ Rejected
    /\ outcome \in
           {Raise("ValueError", "incorrect iss claim"),
            Raise("KeyError", "iss"), Raise("AttributeError", "startswith")}

\* C25 as stated: after the decode the checks run in the order issuer,
\* audience, subject: a token that fails the issuer check and the explicit
\* audience check is rejected for its issuer, one that fails the audience
\* check and the subject check for its audience.
C25_IssuerThenAudience ==
    DecodePassed =>
        /\ ~IssPrefixed /\ ~AudListsExpected => RejectedForIssuer
        /\ IssPrefixed /\ ~AudListsExpected /\ ~SubNonEmpty =>
               RejectedForAudience

\* C25: after the decode the checks run in the order audience, issuer,
\* subject: a token that fails the explicit audience check is rejected for
\* its audience whatever its issuer and subject, and one that passes it and
\* fails the issuer check is rejected at the issuer check whatever its
\* subject.
C25_AudienceThenIssuer ==
    DecodePassed =>
        /\ ~AudListsExpected => RejectedForAudience
        /\ AudListsExpected /\ ~IssPrefixed => RejectedForIssuer

\* a token with a scalar audience and a foreign issuer was rejected for its
\* audience
C25_Witness ==
    /\ DecodePassed
    /\ token.aud = Str(ExpectedAudience)
    /\ token.iss = Str(<<"https://issuer.example/">> \o ProjectX)
    /\ RejectedForAudience

----------------------------------------------------------------------------
(* C26 *)

\* how many times the call in progress has asked the key client for a key
KeyRequests ==
    Cardinality({i \in 1..Len(steps) : steps[i] = "get_signing_key"})

\* C26: within one call the key client is asked for a signing key at most
\* once; when it fails to give one the call has ended in failure, with no
\* second attempt; and a call rejected at the precondition has not asked
\* the key client at all.
C26_KeyAskedAtMostOnce ==
    /\ KeyRequests <= 1
    /\ Ran("get_signing_key") /\ ~KeyResolved =>
           /\ Rejected
           /\ LastStep = "get_signing_key"
    /\ Done /\ Ran("check_string") /\ LastStep = "check_string" =>
           /\ Rejected
           /\ KeyRequests = 0
           /\ ~KeyResolved

\* the key client was asked once for a key it does not have and the call
\* failed
C26_Witness ==
    /\ Done /\ IsJwt
    /\ KeyRequests = 1
    /\ LastStep = "get_signing_key"
    /\ outcome.kind = "PyJWKClientError"

----------------------------------------------------------------------------
(* C27 *)

\* the arguments of a call of the download function are acceptable: the
\* page token is None or a non-empty string, max_results is an integer from
\* 1 to the maximum of the listing, 100 for provider configs, 1000 for users
Acceptable(call) ==
    /\ \/ call.page_token.t = "none"
       \/ call.page_token.t = "str" /\ call.page_token.v # <<>>
    /\ call.max_results.t = "int"
    /\ call.max_results.v[1] >= 1
    /\ call.max_results.v[1] <=
           IF listing.kind = "users" THEN MAX_LIST_USERS_RESULTS
           ELSE MAX_LIST_CONFIGS_RESULTS

\* the request of a call carries max_results, and the page token of the
\* call if one was given and none if none was
CarriesArguments(call) ==
    /\ call.request.method = "get"
    /\ IF listing.kind = "users"
       THEN /\ call.request.path = "/accounts:batchGet"
            /\ call.request.params.maxResults = call.max_results
            /\ call.request.params.nextPageToken =
                   IF call.page_token.t = "none" THEN Absent
                   ELSE call.page_token
       ELSE /\ call.request.path \in {"/oauthIdpConfigs", "/inboundSamlConfigs"}
            /\ call.request.params =
                   IF call.page_token.t = "none"
                   THEN <<"pageSize=", call.max_results>>
                   ELSE <<"pageSize=", call.max_results, "&pageToken=",
                          call.page_token>>

\* C27: a page request is accepted exactly when page_token is None or a
\* non-empty string and max_results is an integer from 1 to the maximum of
\* the listing; other arguments raise ValueError and send nothing; an
\* accepted request carries the page token only when one was given.
C27_PageArguments ==
    \A i \in 1..Len(downloads) :
        IF Acceptable(downloads[i])
        THEN /\ downloads[i].exc # "ValueError"
             /\ CarriesArguments(downloads[i])
        ELSE /\ downloads[i].exc = "ValueError"
             /\ downloads[i].request = NoRequest

\* a first page of 100 OIDC provider configs was asked for with a page
\* token
C27_Witness ==
    /\ Len(downloads) = 1
    /\ listing.kind = "oidc"
    /\ downloads[1].page_token = Str(<<"t0">>)
    /\ downloads[1].max_results = Num(MAX_LIST_CONFIGS_RESULTS)
    /\ downloads[1].exc = "none"
    /\ Len(downloads[1].request.params) = 4

----------------------------------------------------------------------------
(* C28 *)

\* one of the two OIDC operations was called
OidcCalled ==
    provider.operation \in
        {"create_oidc_provider_config", "update_oidc_provider_config"}

\* the call sent its request
ProviderRequestSent == Len(provider_requests) = 1

\* the value is a non-empty string
IsNonEmptyString(value) == value.t = "str" /\ value.v # <<>>

\* C28: create_oidc_provider_config and update_oidc_provider_config raise
\* ValueError when id_token_response_type and code_response_type are both
\* False, and when code_response_type is True but client_secret is not a
\* non-empty string; a request sent with code_response_type True contains
\* the client secret, and a request sent contains a responseType field
\* exactly when at least one of the two response types was given.
C28_ResponseTypes ==
    OidcCalled =>
        /\ ( /\ provider.args.id_token_response_type = Bool(FALSE)
             /\ provider.args.code_response_type = Bool(FALSE) )
           => /\ provider.state = "raised"
              /\ provider.exc = "ValueError"
              /\ ~ProviderRequestSent
        /\ ( /\ provider.args.code_response_type = Bool(TRUE)
             /\ ~IsNonEmptyString(provider.args.client_secret) )
           => /\ provider.state = "raised"
              /\ provider.exc = "ValueError"
              /\ ~ProviderRequestSent
        /\ ( /\ ProviderRequestSent
             /\ provider.args.code_response_type = Bool(TRUE) )
           => /\ provider_requests[1].json.clientSecret
                     = provider.args.client_secret
              /\ IsNonEmptyString(provider_requests[1].json.clientSecret)
        /\ ProviderRequestSent
           => ( provider_requests[1].json.responseType # Absent
                <=> \/ provider.args.id_token_response_type # None
                    \/ provider.args.code_response_type # None )

\* an update is sent for the code response type alone, with its secret
C28_Witness ==
    /\ provider.operation = "update_oidc_provider_config"
    /\ provider.state = "returned"
    /\ provider.args.code_response_type = Bool(TRUE)
    /\ provider.args.id_token_response_type = None
    /\ ProviderRequestSent
    /\ provider_requests[1].json.clientSecret = Str(<<"secret">>)
    /\ provider_requests[1].json.responseType
           = [idToken |-> Absent, code |-> Bool(TRUE)]

----------------------------------------------------------------------------
(* C29 *)

\* one of the two update operations was called
UpdateCalled ==
    provider.operation \in
        {"update_oidc_provider_config", "update_saml_provider_config"}

\* the prefix the provider ids of the operation called have
ProviderPrefix ==
    IF provider.operation = "update_saml_provider_config" THEN "saml."
    ELSE "oidc."

\* the call was given a valid provider id and nothing else
NothingToChange ==
    /\ ValidateProviderId(provider.args.provider_id, ProviderPrefix) = ""
    /\ provider.args
           = [NoArguments EXCEPT !.provider_id = provider.args.provider_id]

\* the paths the update mask of a request names
MaskPaths(request) ==
    {request.params[i] : i \in 2..Len(request.params)} \ {","}

\* C29: update_oidc_provider_config and update_saml_provider_config called
\* with a valid provider id and no field to change raise ValueError ("At
\* least one parameter must be specified for update") and send no request;
\* a patch request that is sent has a non-empty body and an update mask
\* built from exactly the fields placed in the body, and display_name
\* equal to DELETE_ATTRIBUTE is sent as a null displayName.
C29_UpdateMask ==
    UpdateCalled =>
        /\ NothingToChange
           => /\ provider.state = "raised"
              /\ provider.exc = "ValueError"
              /\ provider.msg = "At least one parameter must be specified"
              /\ provider_requests = <<>>
        /\ \A i \in 1..Len(provider_requests) :
               LET request == provider_requests[i]
               IN  /\ request.method = "patch"
                   /\ request.json # EmptyBody
                   /\ request.params
                          = <<"updateMask=">>
                                \o Join(BuildUpdateMask(request.json))
                   /\ MaskPaths(request)
                          = {BodyPaths[p] : p \in
                                {q \in 1..Len(BodyPaths) :
                                    HasPath(request.json, BodyPaths[q])}}
                   /\ provider.args.display_name = DELETE_ATTRIBUTE
                      => /\ request.json.displayName = None
                         /\ "displayName" \in MaskPaths(request)

\* a SAML update that deletes the display name and changes the sign-on URL
C29_Witness ==
    /\ provider.operation = "update_saml_provider_config"
    /\ provider.state = "returned"
    /\ provider.args.display_name = DELETE_ATTRIBUTE
    /\ Len(provider_requests) = 1
    /\ provider_requests[1].json.displayName = None
    /\ provider_requests[1].params
           = <<"updateMask=", "displayName", ",", "idpConfig.ssoUrl">>

====
